---- MODULE Spec2Model ----
(***************************************************************************)
(* Stream chunk parser and accumulator of the Azure AI Foundry provider:   *)
(* OpenAIAdapter.parseChunk / OpenAIAdapter.flush and the transform/flush  *)
(* callbacks of AzureFoundryChatLanguageModel.doStream, which carry the    *)
(* same logic over per-call closure state.                                 *)
(*                                                                         *)
(* Strings are TLA+ strings.  A nullish value (null / undefined / absent)  *)
(* is the empty sequence None; a present value v is Some(v) = <<v>>.       *)
(***************************************************************************)
EXTENDS Integers, Sequences, FiniteSets, TLC

\* ------------------------------------------------------------------------
\* Bounds
\* ------------------------------------------------------------------------

\* chunks delivered to one streaming call that runs on its own
MaxChunks == 3

\* chunks delivered in total when two streaming calls run concurrently
MaxChunksTwo == 2

\* chunks delivered to a streaming call whose request is part of the run
MaxChunksStream == 2

\* the streaming calls issued against one model instance
CallIds == {1, 2}

\* the wire indices a tool-call delta may carry
Indices == {0, 1}

\* ------------------------------------------------------------------------
\* Nullish values
\* ------------------------------------------------------------------------

None == <<>>

Some(v) == <<v>>

\* x ?? d
OrElse(x, d) == IF x = None THEN d ELSE x[1]

\* JavaScript truthiness of an optional string: neither nullish nor ''
TruthyStr(x) == x # None /\ x[1] # ""

\* ------------------------------------------------------------------------
\* The chunks the transport may deliver (ParseResult<OpenAIChunk>)
\* ------------------------------------------------------------------------

ToolCallDelta(index, id, name, arguments) ==
    [index |-> index, id |-> id, name |-> name, arguments |-> arguments]

\* the (id, function.name, function.arguments) combinations of a delta
ToolCallShapes ==
    { <<Some("a"), Some("f"), Some("p")>>,
      <<Some("a"), Some("g"), Some("")>>,
      <<Some("b"), Some("g"), Some("q")>>,
      <<None, None, Some("q")>>,
      <<None, None, None>> }

ToolCallDeltas ==
    { ToolCallDelta(i, s[1], s[2], s[3]) : i \in Indices, s \in ToolCallShapes }

Choice(content, tool_calls, finish_reason) ==
    [content |-> content, tool_calls |-> tool_calls, finish_reason |-> finish_reason]

Usage(prompt_tokens, completion_tokens) ==
    [prompt_tokens |-> prompt_tokens, completion_tokens |-> completion_tokens]

ValidChunk(usage, choices) ==
    [success |-> TRUE, error |-> None, usage |-> usage, choices |-> choices]

FailedChunk(error) ==
    [success |-> FALSE, error |-> Some(error), usage |-> None, choices |-> <<>>]

ToolChunks ==
    { ValidChunk(None, << Choice(None, Some(<<tc>>), None) >>) : tc \in ToolCallDeltas }
    \cup
    { ValidChunk(None, << Choice(None,
          Some(<< ToolCallDelta(0, Some("a"), Some("f"), Some("p")),
                  ToolCallDelta(1, None, Some("g"), Some("q")) >>), None) >>),
      ValidChunk(None, << Choice(None, Some(<< ToolCallDelta(0, None, None, Some("q")) >>), None),
                          Choice(None, Some(<< ToolCallDelta(1, None, None, Some("p")) >>), None) >>) }

TextChunks ==
    { ValidChunk(None, << Choice(c, None, None) >>) : c \in {Some(""), Some("x")} }

FinishChunks ==
    { ValidChunk(None, << Choice(None, None, Some("stop")) >>),
      ValidChunk(None, << Choice(None, None, Some("length")), Choice(None, None, None) >>),
      ValidChunk(None, << Choice(None, None, Some("content_filter")), Choice(None, None, Some("")) >>) }

UsageChunks ==
    { ValidChunk(Some(u), <<>>) :
        u \in { Usage(Some(8), Some(12)), Usage(Some(0), None) } }

MixedChunks ==
    { ValidChunk(Some(Usage(Some(8), Some(12))),
                 << Choice(Some("x"), Some(<< ToolCallDelta(0, Some("a"), Some("f"), Some("p")) >>),
                           Some("tool_calls")) >>) }

FailedChunks == { FailedChunk("invalid") }

Chunks == ToolChunks \cup TextChunks \cup FinishChunks \cup UsageChunks
          \cup MixedChunks \cup FailedChunks

\* ------------------------------------------------------------------------
\* Shared helpers
\* ------------------------------------------------------------------------

mapFinishReason(reason) ==
    CASE reason = Some("stop") -> "stop"
      [] reason = Some("length") -> "length"
      [] reason = Some("content_filter") -> "content-filter"
      [] reason = Some("tool_calls") -> "tool-calls"
      [] OTHER -> "other"

\* the injected id generator: the n-th id it hands out
generateId(n) == "gen-" \o ToString(n)

\* AccPos that finds the first entry whatever its wire index
RECURSIVE AccPos_AnyIndex(_, _, _)
AccPos_AnyIndex(accs, idx, k) ==
    IF k > Len(accs) THEN 0 ELSE k

\* position of wire index idx in the accumulator map (kept in insertion
\* order, as a JavaScript Map iterates), 0 when the map has no such key
RECURSIVE AccPos(_, _, _)
AccPos(accs, idx, k) ==
    IF k > Len(accs) THEN 0
    ELSE IF accs[k].idx = idx THEN k
    ELSE AccPos(accs, idx, k + 1)

\* ------------------------------------------------------------------------
\* Stream parts (ParsedStreamChunk / LanguageModelV2StreamPart)
\* ------------------------------------------------------------------------

\* stream-start that leaves the warnings of the call behind
StreamStart_NoWarnings(warnings) == [type |-> "stream-start", warnings |-> <<>>]

StreamStart(warnings) == [type |-> "stream-start", warnings |-> warnings]

TextStart(id) == [type |-> "text-start", id |-> id]

TextDelta(id, delta) == [type |-> "text-delta", id |-> id, delta |-> delta]

TextEnd(id) == [type |-> "text-end", id |-> id]

ToolInputStart(id, toolName) == [type |-> "tool-input-start", id |-> id, toolName |-> toolName]

ToolInputDelta(id, delta) == [type |-> "tool-input-delta", id |-> id, delta |-> delta]

ToolInputEnd(id) == [type |-> "tool-input-end", id |-> id]

ToolCall(toolCallId, toolName, input) ==
    [type |-> "tool-call", id |-> toolCallId, toolName |-> toolName, input |-> input]

Finish(reason, inTok, outTok) ==
    [type |-> "finish", finishReason |-> reason,
     usage |-> [inputTokens |-> inTok, outputTokens |-> outTok]]

ErrorPart(error) == [type |-> "error", error |-> error]

\* ------------------------------------------------------------------------
\* parseChunk / transform.  A parser state s is a record of the streaming
\* fields plus  out  (the parts pushed by the current invocation) and
\* generated  (how many ids the id generator has handed out).
\* ------------------------------------------------------------------------

\* ContentStep without  openTextIds.add(textId)
ContentStep_NoAdd(s, content) ==
    IF ~TruthyStr(content) THEN s
    ELSE LET textId == "text-0"
             isOpen == \E k \in 1..Len(s.openTextIds) : s.openTextIds[k] = textId
         IN IF isOpen
            THEN [s EXCEPT !.out = Append(@, TextDelta(textId, content[1]))]
            ELSE [s EXCEPT !.out = @ \o << TextStart(textId), TextDelta(textId, content[1]) >>]

\* if (delta.content) { ... }
ContentStep(s, content) ==
    IF ~TruthyStr(content) THEN s
    ELSE LET textId == "text-0"
             isOpen == \E k \in 1..Len(s.openTextIds) : s.openTextIds[k] = textId
         IN IF isOpen
            THEN [s EXCEPT !.out = Append(@, TextDelta(textId, content[1]))]
            ELSE [s EXCEPT !.openTextIds = Append(@, textId),
                           !.out = @ \o << TextStart(textId), TextDelta(textId, content[1]) >>]

\* ToolCallStep that pushes a delta for a known index without testing it
ToolCallStep_AlwaysDelta(s, tc) ==
    LET idx == tc.index
        pos == AccPos(s.toolCallAccumulators, idx, 1)
    IN IF pos = 0
       THEN LET toolCallId == IF tc.id # None THEN tc.id[1] ELSE generateId(s.generated + 1)
                acc == [idx |-> idx, id |-> toolCallId, name |-> OrElse(tc.name, ""),
                        argumentsText |-> OrElse(tc.arguments, "")]
                started == Append(s.out, ToolInputStart(toolCallId, OrElse(tc.name, "")))
            IN [s EXCEPT !.generated = IF tc.id # None THEN @ ELSE @ + 1,
                         !.toolCallAccumulators = Append(@, acc),
                         !.out = IF TruthyStr(tc.arguments)
                                 THEN Append(started, ToolInputDelta(toolCallId, tc.arguments[1]))
                                 ELSE started]
       ELSE LET acc == s.toolCallAccumulators[pos]
                argsDelta == OrElse(tc.arguments, "")
            IN [s EXCEPT !.toolCallAccumulators[pos].argumentsText = @ \o argsDelta,
                         !.out = Append(@, ToolInputDelta(acc.id, argsDelta))]

\* ToolCallStep with  acc.argumentsText = argsDelta  in place of  +=
ToolCallStep_Overwrite(s, tc) ==
    LET idx == tc.index
        pos == AccPos(s.toolCallAccumulators, idx, 1)
    IN IF pos = 0
       THEN LET toolCallId == IF tc.id # None THEN tc.id[1] ELSE generateId(s.generated + 1)
                acc == [idx |-> idx, id |-> toolCallId, name |-> OrElse(tc.name, ""),
                        argumentsText |-> OrElse(tc.arguments, "")]
                started == Append(s.out, ToolInputStart(toolCallId, OrElse(tc.name, "")))
            IN [s EXCEPT !.generated = IF tc.id # None THEN @ ELSE @ + 1,
                         !.toolCallAccumulators = Append(@, acc),
                         !.out = IF TruthyStr(tc.arguments)
                                 THEN Append(started, ToolInputDelta(toolCallId, tc.arguments[1]))
                                 ELSE started]
       ELSE LET acc == s.toolCallAccumulators[pos]
                argsDelta == OrElse(tc.arguments, "")
            IN [s EXCEPT !.toolCallAccumulators[pos].argumentsText = argsDelta,
                         !.out = IF argsDelta # ""
                                 THEN Append(@, ToolInputDelta(acc.id, argsDelta))
                                 ELSE @]

\* ToolCallStep that takes over the name of a later delta
ToolCallStep_Rename(s, tc) ==
    LET idx == tc.index
        pos == AccPos(s.toolCallAccumulators, idx, 1)
    IN IF pos = 0
       THEN LET toolCallId == IF tc.id # None THEN tc.id[1] ELSE generateId(s.generated + 1)
                acc == [idx |-> idx, id |-> toolCallId, name |-> OrElse(tc.name, ""),
                        argumentsText |-> OrElse(tc.arguments, "")]
                started == Append(s.out, ToolInputStart(toolCallId, OrElse(tc.name, "")))
            IN [s EXCEPT !.generated = IF tc.id # None THEN @ ELSE @ + 1,
                         !.toolCallAccumulators = Append(@, acc),
                         !.out = IF TruthyStr(tc.arguments)
                                 THEN Append(started, ToolInputDelta(toolCallId, tc.arguments[1]))
                                 ELSE started]
       ELSE LET acc == s.toolCallAccumulators[pos]
                argsDelta == OrElse(tc.arguments, "")
            IN [s EXCEPT !.toolCallAccumulators[pos].argumentsText = @ \o argsDelta,
                         !.toolCallAccumulators[pos].name = OrElse(tc.name, @),
                         !.out = IF argsDelta # ""
                                 THEN Append(@, ToolInputDelta(acc.id, argsDelta))
                                 ELSE @]

\* body of  for (const tc of delta.tool_calls)
ToolCallStep(s, tc) ==
    LET idx == tc.index
        pos == AccPos(s.toolCallAccumulators, idx, 1)
    IN IF pos = 0
       THEN LET toolCallId == IF tc.id # None THEN tc.id[1] ELSE generateId(s.generated + 1)
                acc == [idx |-> idx, id |-> toolCallId, name |-> OrElse(tc.name, ""),
                        argumentsText |-> OrElse(tc.arguments, "")]
                started == Append(s.out, ToolInputStart(toolCallId, OrElse(tc.name, "")))
            IN [s EXCEPT !.generated = IF tc.id # None THEN @ ELSE @ + 1,
                         !.toolCallAccumulators = Append(@, acc),
                         !.out = IF TruthyStr(tc.arguments)
                                 THEN Append(started, ToolInputDelta(toolCallId, tc.arguments[1]))
                                 ELSE started]
       ELSE LET acc == s.toolCallAccumulators[pos]
                argsDelta == OrElse(tc.arguments, "")
            IN [s EXCEPT !.toolCallAccumulators[pos].argumentsText = @ \o argsDelta,
                         !.out = IF argsDelta # ""
                                 THEN Append(@, ToolInputDelta(acc.id, argsDelta))
                                 ELSE @]

RECURSIVE ToolCallsLoop(_, _)
ToolCallsLoop(s, tcs) ==
    IF tcs = <<>> THEN s ELSE ToolCallsLoop(ToolCallStep(s, Head(tcs)), Tail(tcs))

\* FinishReasonStep that assigns the mapped value also for a null reason
FinishReasonStep_AlwaysAssign(s, finish_reason) ==
    [s EXCEPT !.finishReason = mapFinishReason(finish_reason)]

\* if (choice.finish_reason != null) { ... }
FinishReasonStep(s, finish_reason) ==
    IF finish_reason # None
    THEN [s EXCEPT !.finishReason = mapFinishReason(finish_reason)]
    ELSE s

\* body of  for (const choice of value.choices)
ChoiceStep(s, choice) ==
    LET s1 == ContentStep(s, choice.content)
        s2 == IF choice.tool_calls # None
              THEN ToolCallsLoop(s1, choice.tool_calls[1])
              ELSE s1
    IN FinishReasonStep(s2, choice.finish_reason)

RECURSIVE ChoicesLoop(_, _)
ChoicesLoop(s, choices) ==
    IF choices = <<>> THEN s ELSE ChoicesLoop(ChoiceStep(s, Head(choices)), Tail(choices))

\* UsageStep that assigns the counters also when the chunk has no usage
UsageStep_AlwaysAssign(s, usage) ==
    IF usage # None
    THEN [s EXCEPT !.inputTokens = usage[1].prompt_tokens,
                   !.outputTokens = usage[1].completion_tokens]
    ELSE [s EXCEPT !.inputTokens = None, !.outputTokens = None]

\* UsageStep that keeps a counter the usage object leaves out
UsageStep_KeepOnNull(s, usage) ==
    IF usage # None
    THEN [s EXCEPT !.inputTokens = IF usage[1].prompt_tokens # None
                                   THEN usage[1].prompt_tokens ELSE @,
                   !.outputTokens = IF usage[1].completion_tokens # None
                                    THEN usage[1].completion_tokens ELSE @]
    ELSE s

\* if (value.usage) { ... }
UsageStep(s, usage) ==
    IF usage # None
    THEN [s EXCEPT !.inputTokens = usage[1].prompt_tokens,
                   !.outputTokens = usage[1].completion_tokens]
    ELSE s

\* parseChunk that records a failed chunk in the running finish reason
parseChunk_ErrorFinish(s, chunk) ==
    IF ~chunk.success
    THEN [s EXCEPT !.out = << ErrorPart(chunk.error[1]) >>, !.finishReason = "error"]
    ELSE ChoicesLoop(UsageStep([s EXCEPT !.out = <<>>], chunk.usage), chunk.choices)

parseChunk(s, chunk) ==
    IF ~chunk.success
    THEN [s EXCEPT !.out = << ErrorPart(chunk.error[1]) >>]
    ELSE ChoicesLoop(UsageStep([s EXCEPT !.out = <<>>], chunk.usage), chunk.choices)

\* ------------------------------------------------------------------------
\* flush
\* ------------------------------------------------------------------------

RECURSIVE TextEnds(_)
TextEnds(ids) ==
    IF ids = <<>> THEN <<>> ELSE << TextEnd(Head(ids)) >> \o TextEnds(Tail(ids))

\* ToolCallEnds that closes every tool input before it pushes the tool calls
RECURSIVE ToolCallEnds_EndsFirst(_)
ToolCallEnds_EndsFirst(accs) ==
    [ k \in 1..Len(accs) |-> ToolInputEnd(accs[k].id) ]
    \o [ k \in 1..Len(accs) |-> ToolCall(accs[k].id, accs[k].name, accs[k].argumentsText) ]

RECURSIVE ToolCallEnds(_)
ToolCallEnds(accs) ==
    IF accs = <<>> THEN <<>>
    ELSE << ToolInputEnd(Head(accs).id),
            ToolCall(Head(accs).id, Head(accs).name, Head(accs).argumentsText) >>
         \o ToolCallEnds(Tail(accs))

\* flush that leaves the open text spans open
flush_NoTextEnd(s) ==
    ToolCallEnds(s.toolCallAccumulators)
    \o << Finish(s.finishReason, s.inputTokens, s.outputTokens) >>

\* flush that pushes the finish part before the deferred span parts
flush_FinishFirst(s) ==
    << Finish(s.finishReason, s.inputTokens, s.outputTokens) >>
    \o TextEnds(s.openTextIds)
    \o ToolCallEnds(s.toolCallAccumulators)

flush(s) ==
    TextEnds(s.openTextIds)
    \o ToolCallEnds(s.toolCallAccumulators)
    \o << Finish(s.finishReason, s.inputTokens, s.outputTokens) >>

\* ------------------------------------------------------------------------
\* State
\* ------------------------------------------------------------------------

\* the doStream calls in flight on the model instance
VARIABLE calls

\* per call: "new" (stream not started), "streaming", "closed" (flushed)
VARIABLE phase

\* per call: running finish reason
VARIABLE finishReason

\* per call: running prompt token count, nullish until a chunk sets it
VARIABLE inputTokens

\* per call: running completion token count, nullish until a chunk sets it
VARIABLE outputTokens

\* per call: Map wire index -> {id, name, argumentsText}, in insertion order
VARIABLE toolCallAccumulators

\* per call: Set of open text ids, in insertion order
VARIABLE openTextIds

\* per call: the stream parts enqueued on the controller so far
VARIABLE parts

\* per call: the chunks the transport has delivered so far
VARIABLE delivered

\* number of ids the model instance's id generator has handed out
VARIABLE generated

\* per call: for each delivered chunk, how many ids the generator had handed
\* out when the chunk arrived (which ids the generator gave to this call)
VARIABLE generatedAt

\* the request being prepared on the model instance: the model id and
\* settings it was created with, the call options, the adapter resolved for
\* it and the request body and warnings built for it
VARIABLE req

vars == << calls, phase, finishReason, inputTokens, outputTokens,
           toolCallAccumulators, openTextIds, parts, delivered, generated,
           generatedAt, req >>

\* no request is being prepared
NoRequest == [stage |-> "idle"]

\* the warnings getArgs returned to doStream; none when the request of the
\* call is left out
CallWarnings == IF req.stage = "args" THEN req.warnings ELSE <<>>

\* the streaming state kept once per model instance instead of once per call
CallState_Shared(c) ==
    [finishReason |-> finishReason[1],
     inputTokens |-> inputTokens[1],
     outputTokens |-> outputTokens[1],
     toolCallAccumulators |-> toolCallAccumulators[1],
     openTextIds |-> openTextIds[1],
     generated |-> generated,
     out |-> <<>>]

\* the closure state of call c, as the parser sees it
CallState(c) ==
    [finishReason |-> finishReason[c],
     inputTokens |-> inputTokens[c],
     outputTokens |-> outputTokens[c],
     toolCallAccumulators |-> toolCallAccumulators[c],
     openTextIds |-> openTextIds[c],
     generated |-> generated,
     out |-> <<>>]

\* state of doStream's closure variables when the call is set up
InitStreams(cs) ==
    /\ calls = cs
    /\ phase = [c \in CallIds |-> "new"]
    /\ finishReason = [c \in CallIds |-> "other"]
    /\ inputTokens = [c \in CallIds |-> None]
    /\ outputTokens = [c \in CallIds |-> None]
    /\ toolCallAccumulators = [c \in CallIds |-> <<>>]
    /\ openTextIds = [c \in CallIds |-> <<>>]
    /\ parts = [c \in CallIds |-> <<>>]
    /\ delivered = [c \in CallIds |-> <<>>]
    /\ generated = 0
    /\ generatedAt = [c \in CallIds |-> <<>>]

\* the calls are set up and no request is being prepared
InitCalls(cs) ==
    /\ InitStreams(cs)
    /\ req = NoRequest

Init == InitCalls({1})

InitTwo == InitCalls({1, 2})

\* chunks delivered so far over all calls
TotalDelivered == Len(delivered[1]) + Len(delivered[2])

ChunkBudget ==
    IF req.stage = "args" THEN MaxChunksStream
    ELSE IF Cardinality(calls) = 1 THEN MaxChunks ELSE MaxChunksTwo

\* TransformStream.start: stream-start is enqueued first
Start(c) ==
    /\ c \in calls
    /\ phase[c] = "new"
    /\ phase' = [phase EXCEPT ![c] = "streaming"]
    /\ parts' = [parts EXCEPT ![c] = Append(@, StreamStart(CallWarnings))]
    /\ UNCHANGED << calls, finishReason, inputTokens, outputTokens,
                    toolCallAccumulators, openTextIds, delivered, generated,
                    generatedAt, req >>

\* TransformStream.transform: one chunk is parsed and its parts enqueued
Transform(c) ==
    /\ c \in calls
    /\ phase[c] = "streaming"
    /\ TotalDelivered < ChunkBudget
    /\ \E chunk \in Chunks :
         LET s == parseChunk(CallState(c), chunk)
         IN /\ finishReason' = [finishReason EXCEPT ![c] = s.finishReason]
            /\ inputTokens' = [inputTokens EXCEPT ![c] = s.inputTokens]
            /\ outputTokens' = [outputTokens EXCEPT ![c] = s.outputTokens]
            /\ toolCallAccumulators' =
                   [toolCallAccumulators EXCEPT ![c] = s.toolCallAccumulators]
            /\ openTextIds' = [openTextIds EXCEPT ![c] = s.openTextIds]
            /\ generated' = s.generated
            /\ parts' = [parts EXCEPT ![c] = @ \o s.out]
            /\ delivered' = [delivered EXCEPT ![c] = Append(@, chunk)]
            /\ generatedAt' = [generatedAt EXCEPT ![c] = Append(@, generated)]
    /\ UNCHANGED << calls, phase, req >>

\* TransformStream.flush: the transport signalled the end of the stream
Flush(c) ==
    /\ c \in calls
    /\ phase[c] = "streaming"
    /\ phase' = [phase EXCEPT ![c] = "closed"]
    /\ parts' = [parts EXCEPT ![c] = @ \o flush(CallState(c))]
    /\ UNCHANGED << calls, finishReason, inputTokens, outputTokens,
                    toolCallAccumulators, openTextIds, delivered, generated,
                    generatedAt, req >>

Next == \E c \in CallIds : Start(c) \/ Transform(c) \/ Flush(c)

Spec == Init /\ [][Next]_vars

SpecTwo == InitTwo /\ [][Next]_vars

\* ------------------------------------------------------------------------
\* Reading the emitted parts
\* ------------------------------------------------------------------------

\* positions of the parts of one type in a part sequence
PositionsOf(ps, type) == { k \in 1..Len(ps) : ps[k].type = type }

\* positions of the parts of one type that carry one id
PositionsFor(ps, type, id) == { k \in PositionsOf(ps, type) : ps[k].id = id }

\* the ids carried by the tool parts / the text parts of a part sequence
ToolIds(ps) ==
    { ps[k].id : k \in PositionsOf(ps, "tool-input-start") \cup PositionsOf(ps, "tool-input-delta")
                       \cup PositionsOf(ps, "tool-input-end") \cup PositionsOf(ps, "tool-call") }

TextIds(ps) ==
    { ps[k].id : k \in PositionsOf(ps, "text-start") \cup PositionsOf(ps, "text-delta")
                       \cup PositionsOf(ps, "text-end") }

\* concatenation, in emission order, of the delta of every part of one type
\* emitted for one id
RECURSIVE DeltaText(_, _, _)
DeltaText(ps, type, id) ==
    IF ps = <<>> THEN ""
    ELSE (IF Head(ps).type = type /\ Head(ps).id = id THEN Head(ps).delta ELSE "")
         \o DeltaText(Tail(ps), type, id)

\* the wire indices to which one call's accumulator map binds an id
IndicesOfId(c, id) ==
    { toolCallAccumulators[c][k].idx :
        k \in { j \in 1..Len(toolCallAccumulators[c]) : toolCallAccumulators[c][j].id = id } }

\* start -> delta* -> end for the parts of one id: at most one start and one
\* end, every delta after the start and before the end, the end after the start
SpanOrdered(ps, startType, deltaType, endType, id) ==
    LET S == PositionsFor(ps, startType, id)
        D == PositionsFor(ps, deltaType, id)
        E == PositionsFor(ps, endType, id)
    IN /\ Cardinality(S) <= 1
       /\ Cardinality(E) <= 1
       /\ \A d \in D : \E st \in S : st < d
       /\ \A e \in E : \E st \in S : st < e
       /\ \A d \in D : \A e \in E : d < e

\* every tool-call part of an id comes after a tool-input-end of that id
ToolCallAfterEnd(ps, id) ==
    \A t \in PositionsFor(ps, "tool-call", id) :
        \E e \in PositionsFor(ps, "tool-input-end", id) : e < t

IdOrdered(ps, id) ==
    /\ SpanOrdered(ps, "text-start", "text-delta", "text-end", id)
    /\ SpanOrdered(ps, "tool-input-start", "tool-input-delta", "tool-input-end", id)
    /\ ToolCallAfterEnd(ps, id)

\* ------------------------------------------------------------------------
\* C1
\* ------------------------------------------------------------------------

\* C1 as stated: once the stream is flushed, for every tool-call part the
\* concatenation of the tool-input-delta parts of its id equals its input,
\* whatever wire indices and ids the chunks carried.
C1_DeltasRebuildInput_AnyIds ==
    \A c \in calls :
        phase[c] = "closed" =>
            \A k \in PositionsOf(parts[c], "tool-call") :
                DeltaText(parts[c], "tool-input-delta", parts[c][k].id) = parts[c][k].input

\* C1 amended: once the stream is flushed, for every tool-call part whose id
\* the run bound to a single wire index, the concatenation of the
\* tool-input-delta parts of that id, in emission order, equals its input.
C1_DeltasRebuildInput ==
    \A c \in calls :
        phase[c] = "closed" =>
            \A k \in PositionsOf(parts[c], "tool-call") :
                Cardinality(IndicesOfId(c, parts[c][k].id)) = 1 =>
                    DeltaText(parts[c], "tool-input-delta", parts[c][k].id) = parts[c][k].input

\* a flushed stream whose tool call arrived split over several fragments,
\* next to a second tool call with an id of its own
C1_Witness ==
    /\ phase[1] = "closed"
    /\ \E k \in PositionsOf(parts[1], "tool-call") :
         /\ parts[1][k].input = "pq"
         /\ Cardinality(PositionsFor(parts[1], "tool-input-delta", parts[1][k].id)) = 2
         /\ Cardinality(IndicesOfId(1, parts[1][k].id)) = 1
    /\ Len(toolCallAccumulators[1]) = 2

\* ------------------------------------------------------------------------
\* C2
\* ------------------------------------------------------------------------

\* C2 as stated: at every point of a stream the parts of any id are ordered
\* start, delta*, end with at most one start and one end, and a tool-call part
\* follows its id's tool-input-end, whatever ids the chunks carried.
C2_SpanOrder_AnyIds ==
    \A c \in calls :
        \A id \in ToolIds(parts[c]) \cup TextIds(parts[c]) : IdOrdered(parts[c], id)

\* C2 amended: the same for every text id and for every tool id that the run
\* bound to a single wire index.
C2_SpanOrder ==
    \A c \in calls :
        \A id \in ToolIds(parts[c]) \cup TextIds(parts[c]) :
            Cardinality(IndicesOfId(c, id)) <= 1 => IdOrdered(parts[c], id)

\* a flushed stream with a text span and two tool spans of different ids, one
\* of them with two deltas
C2_Witness ==
    /\ phase[1] = "closed"
    /\ PositionsFor(parts[1], "text-delta", "text-0") # {}
    /\ Cardinality(ToolIds(parts[1])) = 2
    /\ \E id \in ToolIds(parts[1]) :
         Cardinality(PositionsFor(parts[1], "tool-input-delta", id)) = 2
    /\ \A id \in ToolIds(parts[1]) :
         PositionsFor(parts[1], "tool-call", id) # {}

\* ------------------------------------------------------------------------
\* C3
\* ------------------------------------------------------------------------

\* C3: a stream carries no finish part before it is flushed and exactly one
\* afterwards, and that one is the last part of the stream (so it follows
\* every text-end, tool-input-end and tool-call, and nothing follows it).
C3_FinishOnceAndLast ==
    \A c \in calls :
        PositionsOf(parts[c], "finish") =
            IF phase[c] = "closed" THEN { Len(parts[c]) } ELSE {}

\* a flushed stream that saw a failed chunk and closes a text span and a tool
\* span before its finish part
C3_Witness ==
    /\ phase[1] = "closed"
    /\ PositionsOf(parts[1], "error") # {}
    /\ PositionsOf(parts[1], "text-end") # {}
    /\ PositionsOf(parts[1], "tool-call") # {}
    /\ parts[1][Len(parts[1])].type = "finish"

\* ------------------------------------------------------------------------
\* Reading the delivered chunks
\* ------------------------------------------------------------------------

\* the tool-call deltas of a list of choices, in wire order
RECURSIVE ChoiceToolDeltas(_)
ChoiceToolDeltas(choices) ==
    IF choices = <<>> THEN <<>>
    ELSE OrElse(Head(choices).tool_calls, <<>>) \o ChoiceToolDeltas(Tail(choices))

\* the tool-call deltas of the valid chunks of a chunk list, in arrival order
RECURSIVE WireToolDeltas(_)
WireToolDeltas(chunks) ==
    IF chunks = <<>> THEN <<>>
    ELSE (IF Head(chunks).success THEN ChoiceToolDeltas(Head(chunks).choices) ELSE <<>>)
         \o WireToolDeltas(Tail(chunks))

\* the wire indices of a delta list in the order of their first appearance
RECURSIVE FirstSeen(_, _)
FirstSeen(tcs, seen) ==
    IF tcs = <<>> THEN <<>>
    ELSE IF Head(tcs).index \in seen THEN FirstSeen(Tail(tcs), seen)
    ELSE << Head(tcs).index >> \o FirstSeen(Tail(tcs), seen \cup { Head(tcs).index })

\* the argument fragments delivered at one wire index, concatenated in
\* arrival order
RECURSIVE FragmentsAt(_, _)
FragmentsAt(tcs, idx) ==
    IF tcs = <<>> THEN ""
    ELSE (IF Head(tcs).index = idx THEN OrElse(Head(tcs).arguments, "") ELSE "")
         \o FragmentsAt(Tail(tcs), idx)

\* the finish_reason of every choice of the valid chunks, in arrival order
RECURSIVE ChoiceFinishReasons(_)
ChoiceFinishReasons(choices) ==
    IF choices = <<>> THEN <<>>
    ELSE << Head(choices).finish_reason >> \o ChoiceFinishReasons(Tail(choices))

RECURSIVE WireFinishReasons(_)
WireFinishReasons(chunks) ==
    IF chunks = <<>> THEN <<>>
    ELSE (IF Head(chunks).success THEN ChoiceFinishReasons(Head(chunks).choices) ELSE <<>>)
         \o WireFinishReasons(Tail(chunks))

\* the last non-null entry of a list of optional values, None if there is none
RECURSIVE LastPresent(_)
LastPresent(xs) ==
    IF xs = <<>> THEN None
    ELSE IF xs[Len(xs)] # None THEN xs[Len(xs)]
    ELSE LastPresent(SubSeq(xs, 1, Len(xs) - 1))

\* the usage object of every valid chunk (None where the chunk has none)
RECURSIVE WireUsages(_)
WireUsages(chunks) ==
    IF chunks = <<>> THEN <<>>
    ELSE << IF Head(chunks).success THEN Head(chunks).usage ELSE None >>
         \o WireUsages(Tail(chunks))

IsToolCallPart(p) == p.type = "tool-call"

IsNotErrorPart(p) == p.type # "error"

\* the finish part of a flushed stream
FinishPart(c) == parts[c][Len(parts[c])]

\* ------------------------------------------------------------------------
\* C4
\* ------------------------------------------------------------------------

\* C4: once the stream is flushed, there are exactly as many tool-call parts
\* as distinct wire indices were delivered, and the k-th of them carries the
\* concatenation, in arrival order, of the argument fragments delivered at
\* the k-th index to appear and of no other index; what an index receives
\* depends only on its own fragments, so not on how the indices interleave.
C4_OneToolCallPerIndex ==
    \A c \in calls :
        phase[c] = "closed" =>
            LET tcs == WireToolDeltas(delivered[c])
                order == FirstSeen(tcs, {})
                T == SelectSeq(parts[c], IsToolCallPart)
            IN /\ Len(T) = Len(order)
               /\ \A k \in 1..Len(order) : T[k].input = FragmentsAt(tcs, order[k])

\* a flushed stream in which the deltas of two indices interleaved (one
\* index, the other, the first again) and both tool calls got a different text
C4_Witness ==
    /\ phase[1] = "closed"
    /\ LET tcs == WireToolDeltas(delivered[1])
           T == SelectSeq(parts[1], IsToolCallPart)
       IN /\ \E i, j, k \in 1..Len(tcs) :
                i < j /\ j < k /\ tcs[i].index = tcs[k].index /\ tcs[i].index # tcs[j].index
          /\ Len(T) = 2
          /\ T[1].input = "pq"
          /\ T[2].input = "q"

\* ------------------------------------------------------------------------
\* Running a chunk list through a fresh parser
\* ------------------------------------------------------------------------

\* the streaming fields of a newly constructed parser
FreshState ==
    [finishReason |-> "other", inputTokens |-> None, outputTokens |-> None,
     toolCallAccumulators |-> <<>>, openTextIds |-> <<>>, generated |-> 0, out |-> <<>>]

\* parseChunk for each chunk in turn, the id generator standing where gens
\* says it stood when the chunk arrived; yields the final state and the parts
RECURSIVE Replay(_, _, _, _)
Replay(s, ps, chunks, gens) ==
    IF chunks = <<>> THEN [state |-> s, parts |-> ps]
    ELSE LET r == parseChunk([s EXCEPT !.generated = Head(gens)], Head(chunks))
         IN Replay(r, ps \o r.out, Tail(chunks), Tail(gens))

\* the parts a call emits when it runs on its own over the given chunks
RunAlone(ph, chunks, gens) ==
    IF ph = "new" THEN <<>>
    ELSE LET r == Replay(FreshState, << StreamStart(CallWarnings) >>, chunks, gens)
         IN IF ph = "closed" THEN r.parts \o flush(r.state) ELSE r.parts

\* the positions of the valid chunks of a chunk list
RECURSIVE ValidPositions(_, _)
ValidPositions(chunks, k) ==
    IF k > Len(chunks) THEN <<>>
    ELSE (IF chunks[k].success THEN << k >> ELSE <<>>) \o ValidPositions(chunks, k + 1)

Pick(xs, positions) == [ k \in 1..Len(positions) |-> xs[positions[k]] ]

\* ------------------------------------------------------------------------
\* C5
\* ------------------------------------------------------------------------

\* the step delivers a failed chunk to call c
FailedChunkStep(c) ==
    /\ Len(delivered'[c]) = Len(delivered[c]) + 1
    /\ ~delivered'[c][Len(delivered'[c])].success

\* C5: a failed chunk adds exactly one error part and changes no parser state
\* (accumulators, open text ids, finish reason, usage, id generator), and the
\* stream goes on as usual: at every point the parts other than error parts
\* are the parts of the same run without its failed chunks, the flush parts
\* included.
C5_FailedChunk ==
    /\ [][ \A c \in calls :
             FailedChunkStep(c) =>
                /\ parts'[c] = Append(parts[c],
                                      ErrorPart(delivered'[c][Len(delivered'[c])].error[1]))
                /\ toolCallAccumulators'[c] = toolCallAccumulators[c]
                /\ openTextIds'[c] = openTextIds[c]
                /\ finishReason'[c] = finishReason[c]
                /\ inputTokens'[c] = inputTokens[c]
                /\ outputTokens'[c] = outputTokens[c]
                /\ generated' = generated
                /\ phase'[c] = phase[c] ]_vars
    /\ [] ( \A c \in calls :
              LET valid == ValidPositions(delivered[c], 1)
              IN SelectSeq(parts[c], IsNotErrorPart)
                 = RunAlone(phase[c], Pick(delivered[c], valid), Pick(generatedAt[c], valid)) )

\* a flushed stream in which a failed chunk came after a tool call and a text
\* span were opened and before a later text delta
C5_Witness ==
    /\ phase[1] = "closed"
    /\ \E e \in PositionsOf(parts[1], "error") :
         /\ \E k \in PositionsOf(parts[1], "tool-input-start") : k < e
         /\ \E k \in PositionsOf(parts[1], "text-start") : k < e
         /\ \E k \in PositionsOf(parts[1], "text-delta") : k > e
    /\ PositionsOf(parts[1], "text-end") # {}
    /\ PositionsOf(parts[1], "tool-call") # {}
    /\ FinishPart(1).type = "finish"

\* ------------------------------------------------------------------------
\* C6
\* ------------------------------------------------------------------------

\* C6: the usage of the finish part is that of the last delivered chunk that
\* carried a usage object; a later chunk without usage does not reset it; with
\* no usage on any chunk both fields are undefined (and so not zero).
C6_UsageLastWriterWins ==
    \A c \in calls :
        phase[c] = "closed" =>
            LET last == LastPresent(WireUsages(delivered[c]))
            IN IF last = None
               THEN /\ FinishPart(c).usage = [inputTokens |-> None, outputTokens |-> None]
                    /\ FinishPart(c).usage.inputTokens # Some(0)
                    /\ FinishPart(c).usage.outputTokens # Some(0)
               ELSE FinishPart(c).usage = [inputTokens |-> last[1].prompt_tokens,
                                           outputTokens |-> last[1].completion_tokens]

\* a flushed stream with two usage-bearing chunks followed by a valid chunk
\* without usage: the finish part has the second usage
C6_Witness ==
    /\ phase[1] = "closed"
    /\ Len(delivered[1]) = 3
    /\ delivered[1][1].usage = Some(Usage(Some(0), None))
    /\ delivered[1][2].usage = Some(Usage(Some(8), Some(12)))
    /\ delivered[1][3].success /\ delivered[1][3].usage = None
    /\ FinishPart(1).usage = [inputTokens |-> Some(8), outputTokens |-> Some(12)]

\* ------------------------------------------------------------------------
\* C7
\* ------------------------------------------------------------------------

\* C7: the finishReason of the finish part is the mapped value of the last
\* non-null finish_reason over all choices of all valid chunks in arrival
\* order, and 'other' when there is none.
C7_FinishReasonLastWriterWins ==
    \A c \in calls :
        phase[c] = "closed" =>
            LET last == LastPresent(WireFinishReasons(delivered[c]))
            IN FinishPart(c).finishReason =
                  IF last = None THEN "other" ELSE mapFinishReason(last)

\* a flushed stream whose last non-null finish_reason ('length') is followed
\* by a choice and by a chunk with a null finish_reason, after an earlier 'stop'
C7_Witness ==
    /\ phase[1] = "closed"
    /\ Len(delivered[1]) = 3
    /\ WireFinishReasons(SubSeq(delivered[1], 1, 1)) = << Some("stop") >>
    /\ WireFinishReasons(SubSeq(delivered[1], 2, 2)) = << Some("length"), None >>
    /\ WireFinishReasons(SubSeq(delivered[1], 3, 3)) = << None >>
    /\ FinishPart(1).finishReason = "length"

\* ------------------------------------------------------------------------
\* C8
\* ------------------------------------------------------------------------

\* C8: no text-delta part and no tool-input-delta part has an empty delta.
C8_NoEmptyDelta ==
    \A c \in calls :
        \A k \in PositionsOf(parts[c], "text-delta") \cup PositionsOf(parts[c], "tool-input-delta") :
            parts[c][k].delta # ""

\* a flushed stream that received an empty text content, an empty first
\* argument fragment and an absent later fragment at the same index: a tool
\* span was opened and no delta part exists
C8_Witness ==
    /\ phase[1] = "closed"
    /\ \E k \in 1..Len(delivered[1]) :
         /\ delivered[1][k].success
         /\ delivered[1][k].choices # <<>>
         /\ delivered[1][k].choices[1].content = Some("")
    /\ LET tcs == WireToolDeltas(delivered[1])
       IN /\ Len(tcs) = 2
          /\ tcs[1].index = tcs[2].index
          /\ tcs[1].arguments = Some("")
          /\ tcs[2].arguments = None
    /\ PositionsOf(parts[1], "tool-input-start") # {}
    /\ PositionsOf(parts[1], "tool-call") # {}
    /\ PositionsOf(parts[1], "tool-input-delta") = {}
    /\ PositionsOf(parts[1], "text-delta") = {}

\* ------------------------------------------------------------------------
\* C9
\* ------------------------------------------------------------------------

C10_CallsIsolated ==
    \A c \in calls :
        parts[c] = RunAlone(phase[c], delivered[c], generatedAt[c])

\* the second call opened a tool span and is still streaming; the first call
\* then opened a tool span at the same wire index, drew the next generated
\* id, and was flushed with its own tool call
C10_Witness ==
    /\ calls = {1, 2}
    /\ phase[1] = "closed" /\ phase[2] = "streaming"
    /\ PositionsFor(parts[2], "tool-input-start", "gen-1") # {}
    /\ PositionsFor(parts[1], "tool-input-start", "gen-2") # {}
    /\ PositionsFor(parts[1], "tool-call", "gen-2") # {}
    /\ toolCallAccumulators[1][1].idx = toolCallAccumulators[2][1].idx

\* ------------------------------------------------------------------------
\* Adapter resolution (adapters/index.ts).  A model id is a sequence of
\* characters, so that the patterns can be matched against its beginning.
\* ------------------------------------------------------------------------

\* the model ids a model instance may be created with
ModelIds ==
    { <<"o", "1">>,
      <<"O", "1">>,
      <<"o", "3", "-", "m", "i", "n", "i">>,
      <<"o", "m", "n", "i">>,
      <<"x", "o", "1">>,
      <<"g", "p", "t", "-", "5">>,
      <<"G", "p", "t", "-", "5", "-", "n", "a", "n", "o">>,
      <<"g", "p", "t", "-", "4", ".", "5">>,
      <<"g", "p", "t", "-", "4", "5">>,
      <<"g", "p", "t", "-", "4">>,
      <<"g", "p", "t", "-", "4", "o">>,
      <<"G", "P", "T", "-", "4", "o">>,
      <<"g", "p", "t", "-", "3", "5">>,
      <<"g", "p", "t", "-", "3", ".", "5">>,
      <<"g", "p", "t", "-", "3">>,
      <<"g", "p", "t", "-", "t", "e", "s", "t">>,
      <<"c", "l", "a", "u", "d", "e">> }

\* the values of the adapterType setting (undefined when not set)
AdapterTypeSettings == { None, Some("openai"), Some("openai-legacy"), Some("anthropic") }

Digits == { "0", "1", "2", "3", "4", "5", "6", "7", "8", "9" }

\* String.prototype.toLowerCase, on one character
LowerChar(ch) ==
    CASE ch = "G" -> "g"
      [] ch = "P" -> "p"
      [] ch = "T" -> "t"
      [] ch = "O" -> "o"
      [] OTHER -> ch

toLowerCase(str) == [ k \in 1..Len(str) |-> LowerChar(str[k]) ]

\* a pattern /^<literal>/i or /^<literal>\d/i
Pattern(literal, thenDigit) == [literal |-> literal, thenDigit |-> thenDigit]

OPENAI_PATTERNS ==
    << Pattern(<<"o">>, TRUE),
       Pattern(<<"g", "p", "t", "-", "5">>, FALSE),
       Pattern(<<"g", "p", "t", "-", "4", ".", "5">>, FALSE) >>

OPENAI_LEGACY_PATTERNS ==
    << Pattern(<<"g", "p", "t", "-", "4", "o">>, FALSE),
       Pattern(<<"g", "p", "t", "-", "4">>, FALSE),
       Pattern(<<"g", "p", "t", "-", "3", "5">>, FALSE),
       Pattern(<<"g", "p", "t", "-", "3", ".", "5">>, FALSE) >>

\* RegExp.prototype.test for these anchored, case-insensitive patterns
PatternTest(pattern, str) ==
    LET n == Len(pattern.literal)
        low == toLowerCase(str)
    IN /\ Len(str) >= n + (IF pattern.thenDigit THEN 1 ELSE 0)
       /\ SubSeq(low, 1, n) = toLowerCase(pattern.literal)
       /\ pattern.thenDigit => low[n + 1] \in Digits

\* some pattern of the list matches
AnyPatternTest(patterns, str) ==
    \E k \in 1..Len(patterns) : PatternTest(patterns[k], str)

\* detectAdapterType with the two loops exchanged
detectAdapterType_ModernFirst(modelId) ==
    LET id == toLowerCase(modelId)
    IN IF AnyPatternTest(OPENAI_PATTERNS, id) THEN "openai"
       ELSE IF AnyPatternTest(OPENAI_LEGACY_PATTERNS, id) THEN "openai-legacy"
       ELSE "openai"

detectAdapterType(modelId) ==
    LET id == toLowerCase(modelId)
    IN IF AnyPatternTest(OPENAI_LEGACY_PATTERNS, id) THEN "openai-legacy"
       ELSE IF AnyPatternTest(OPENAI_PATTERNS, id) THEN "openai"
       ELSE "openai"

\* the outcome of a call: a returned value or a thrown Error with its
\* message, the message cut into the pieces it is put together from
Returned(value) == [threw |-> FALSE, value |-> value]

Thrown(message) == [threw |-> TRUE, message |-> message]

\* resolveAdapter that lets the model id decide whenever a pattern matches
resolveAdapter_PatternWins(modelId, adapterType) ==
    LET id == toLowerCase(modelId)
        matched == AnyPatternTest(OPENAI_LEGACY_PATTERNS, id) \/ AnyPatternTest(OPENAI_PATTERNS, id)
        resolved == IF matched THEN detectAdapterType(modelId)
                    ELSE OrElse(adapterType, detectAdapterType(modelId))
    IN CASE resolved = "openai" -> Returned("OpenAIAdapter")
         [] resolved = "openai-legacy" -> Returned("OpenAILegacyAdapter")
         [] resolved = "anthropic" ->
              Thrown(<< "@nquandt/azure-ai-sdk: adapterType 'anthropic' is ",
                        "not yet implemented", "." >>)
         [] OTHER ->
              Thrown(<< "@nquandt/azure-ai-sdk: unknown adapterType '", resolved, "'." >>)

\* resolveAdapter that answers 'anthropic' with the default adapter
resolveAdapter_AnthropicFallback(modelId, adapterType) ==
    LET resolved == OrElse(adapterType, detectAdapterType(modelId))
    IN CASE resolved = "openai" -> Returned("OpenAIAdapter")
         [] resolved = "openai-legacy" -> Returned("OpenAILegacyAdapter")
         [] resolved = "anthropic" -> Returned("OpenAIAdapter")
         [] OTHER ->
              Thrown(<< "@nquandt/azure-ai-sdk: unknown adapterType '", resolved, "'." >>)

resolveAdapter(modelId, adapterType) ==
    LET resolved == OrElse(adapterType, detectAdapterType(modelId))
    IN CASE resolved = "openai" -> Returned("OpenAIAdapter")
         [] resolved = "openai-legacy" -> Returned("OpenAILegacyAdapter")
         [] resolved = "anthropic" ->
              Thrown(<< "@nquandt/azure-ai-sdk: adapterType 'anthropic' is ",
                        "not yet implemented", "." >>)
         [] OTHER ->
              Thrown(<< "@nquandt/azure-ai-sdk: unknown adapterType '", resolved, "'." >>)

\* the message has the given text in it
MessageContains(message, text) == \E k \in 1..Len(message) : message[k] = text

\* ------------------------------------------------------------------------
\* The conversation and its conversion to wire messages (openai-adapter.ts,
\* convertToOpenAIMessages).
\* ------------------------------------------------------------------------

\* a JavaScript value that is a string
Str(text) == [t |-> "string", v |-> text]

\* a JavaScript value that is an object with string members, in key order
Obj(members) == [t |-> "object", members |-> members]

\* the strings of a sequence, one after the other, sep between two of them
RECURSIVE Join(_, _)
Join(strs, sep) ==
    IF strs = <<>> THEN ""
    ELSE IF Len(strs) = 1 THEN strs[1]
    ELSE strs[1] \o sep \o Join(Tail(strs), sep)

\* JSON.stringify of such a value
JSONstringify(value) ==
    IF value.t = "string" THEN "\"" \o value.v \o "\""
    ELSE "{" \o Join([ k \in 1..Len(value.members) |->
                         "\"" \o value.members[k][1] \o "\":\"" \o value.members[k][2] \o "\"" ], ",")
             \o "}"

\* a media type, type/subtype
MediaType(type, subtype) == [type |-> type, subtype |-> subtype]

\* the media type as the string it is
MediaTypeString(mediaType) == mediaType.type \o "/" \o mediaType.subtype

\* the data of a file part: a URL, a base64 string or bytes
UrlData(href) == [kind |-> "url", href |-> href]

StringData(base64) == [kind |-> "string", base64 |-> base64]

BytesData(bytes) == [kind |-> "bytes", bytes |-> bytes]

\* Buffer.from(bytes).toString('base64'), for the byte arrays of the model
BufferToBase64(bytes) ==
    CASE bytes = << 104, 105 >> -> "aGk="
      [] bytes = << 1, 2, 3 >> -> "AQID"
      [] OTHER -> ""

\* parts of the messages of a prompt
TextPart(text) == [type |-> "text", text |-> text]

FilePart(mediaType, data) == [type |-> "file", mediaType |-> mediaType, data |-> data]

ToolCallPart(toolCallId, toolName, input) ==
    [type |-> "tool-call", toolCallId |-> toolCallId, toolName |-> toolName, input |-> input]

ToolResultPart(toolCallId, output) ==
    [type |-> "tool-result", toolCallId |-> toolCallId, output |-> output]

\* the output of a tool result: text, error-text, json or error-json
ToolOutput(type, value) == [type |-> type, value |-> value]

\* messages of a prompt
SystemMessage(content) == [role |-> "system", content |-> content]

UserMessage(content) == [role |-> "user", content |-> content]

AssistantMessage(content) == [role |-> "assistant", content |-> content]

ToolMessage(content) == [role |-> "tool", content |-> content]

\* the file parts of the model
ImageUrlFile == FilePart(MediaType("image", "png"), UrlData("https://example.com/cat.png"))

ImageStringFile == FilePart(MediaType("image", "jpeg"), StringData("AQID"))

ImageBytesFile == FilePart(MediaType("image", "png"), BytesData(<< 104, 105 >>))

PdfFile == FilePart(MediaType("application", "pdf"), StringData("JVBERg=="))

AudioFile == FilePart(MediaType("audio", "wav"), BytesData(<< 1, 2, 3 >>))

\* the conversations of the model, one after the other
Prompts ==
    << <<>>,
      << UserMessage(<< TextPart("hi") >>) >>,
      << SystemMessage("be terse"), UserMessage(<< TextPart("2+2?") >>) >>,
      << UserMessage(<< TextPart("look"), ImageUrlFile >>) >>,
      << UserMessage(<< ImageStringFile, TextPart("and"), ImageBytesFile >>) >>,
      << UserMessage(<< TextPart("read"), PdfFile >>) >>,
      << UserMessage(<< PdfFile, ImageUrlFile, AudioFile >>) >>,
      << UserMessage(<< TextPart("weather?") >>),
         AssistantMessage(<< TextPart("let me "), TextPart("check"),
                             ToolCallPart("call_1", "getWeather", Obj(<< <<"city", "Oslo">> >>)) >>),
         ToolMessage(<< ToolResultPart("call_1", ToolOutput("text", Str("sunny"))) >>),
         AssistantMessage(<< TextPart("sunny") >>) >>,
      << AssistantMessage(<< ToolCallPart("call_1", "a", Str("{}")),
                             ToolCallPart("call_2", "b", Str("{}")) >>),
         ToolMessage(<< ToolResultPart("call_1", ToolOutput("json", Obj(<< <<"ok", "yes">> >>))),
                        ToolResultPart("call_2", ToolOutput("error-text", Str("failed"))) >>) >>,
      << SystemMessage("be terse"), SystemMessage(""),
         UserMessage(<< TextPart("x"), TextPart(""), TextPart("x") >>),
         AssistantMessage(<< TextPart("ab"), TextPart(""), TextPart("c") >>),
         UserMessage(<<>>) >>,
      << AssistantMessage(<<>>), UserMessage(<< TextPart("y") >>),
         AssistantMessage(<< TextPart("") >>) >> >>

\* String(output.value) or JSON.stringify(output.value) of a tool result
toolResultToString(output) ==
    IF output.type \in { "text", "error-text" } THEN output.value.v
    ELSE IF output.type \in { "json", "error-json" } THEN JSONstringify(output.value)
    ELSE JSONstringify(Obj(<< <<"type", output.type>> >>))

\* UserPart that leaves out a text part with no text
UserPart_DropEmptyText(part) ==
    IF part.type = "text" /\ part.text # "" THEN << [type |-> "text", text |-> part.text] >>
    ELSE <<>>

\* the wire parts of one part of a user message: a text part, an image part,
\* or nothing for a file that is no image
UserPart(part) ==
    IF part.type = "text" THEN << [type |-> "text", text |-> part.text] >>
    ELSE IF part.type = "file" /\ part.mediaType.type = "image" THEN
        IF part.data.kind = "url"
        THEN << [type |-> "image_url", image_url |-> [url |-> part.data.href]] >>
        ELSE IF part.data.kind = "string"
        THEN << [type |-> "image_url",
                 image_url |-> [url |-> "data:" \o MediaTypeString(part.mediaType)
                                          \o ";base64," \o part.data.base64]] >>
        ELSE << [type |-> "image_url",
                 image_url |-> [url |-> "data:" \o MediaTypeString(part.mediaType)
                                          \o ";base64," \o BufferToBase64(part.data.bytes)]] >>
    ELSE <<>>

\* the wire parts of the parts of a user message
RECURSIVE UserParts(_)
UserParts(content) ==
    IF content = <<>> THEN <<>>
    ELSE UserPart(Head(content)) \o UserParts(Tail(content))

\* the text of an assistant message: null (None) when it has no text part
RECURSIVE AssistantText(_, _)
AssistantText(content, textContent) ==
    IF content = <<>> THEN textContent
    ELSE AssistantText(Tail(content),
                       IF Head(content).type = "text"
                       THEN Some(OrElse(textContent, "") \o Head(content).text)
                       ELSE textContent)

\* the tool calls of an assistant message
RECURSIVE AssistantToolCalls(_)
AssistantToolCalls(content) ==
    IF content = <<>> THEN <<>>
    ELSE (IF Head(content).type = "tool-call"
          THEN << [ id |-> Head(content).toolCallId,
                    type |-> "function",
                    function |-> [ name |-> Head(content).toolName,
                                   arguments |-> IF Head(content).input.t = "string"
                                                 THEN Head(content).input.v
                                                 ELSE JSONstringify(Head(content).input) ] ] >>
          ELSE <<>>)
         \o AssistantToolCalls(Tail(content))

\* the wire messages of one message of the prompt
ConvertMessage(message) ==
    CASE message.role = "system" ->
           << [role |-> "system", content |-> message.content] >>
      [] message.role = "user" ->
           << [role |-> "user", content |-> UserParts(message.content)] >>
      [] message.role = "assistant" ->
           LET textContent == AssistantText(message.content, None)
               toolCalls == AssistantToolCalls(message.content)
           IN IF Len(toolCalls) > 0
              THEN << [role |-> "assistant", content |-> textContent, tool_calls |-> toolCalls] >>
              ELSE << [role |-> "assistant", content |-> textContent] >>
      [] message.role = "tool" ->
           [ k \in 1..Len(message.content) |->
               [ role |-> "tool",
                 tool_call_id |-> message.content[k].toolCallId,
                 content |-> toolResultToString(message.content[k].output) ] ]

RECURSIVE convertToOpenAIMessages(_)
convertToOpenAIMessages(prompt) ==
    IF prompt = <<>> THEN <<>>
    ELSE ConvertMessage(Head(prompt)) \o convertToOpenAIMessages(Tail(prompt))

\* the same conversion, as the language model class has it
convertToAzureMessages(prompt) == convertToOpenAIMessages(prompt)

\* ------------------------------------------------------------------------
\* Call options, per-model settings and the request body.  An option or a
\* setting that is not given (undefined) is None.
\* ------------------------------------------------------------------------

\* a function tool and a provider-defined tool of the call options
FunctionTool(name, description, inputSchema) ==
    [type |-> "function", name |-> name, description |-> description,
     inputSchema |-> inputSchema]

ProviderDefinedTool(id, name) ==
    [type |-> "provider-defined", id |-> id, name |-> name]

WeatherTool ==
    FunctionTool("getWeather", Some("Get the weather"), Obj(<< <<"type", "object">> >>))

SearchTool == FunctionTool("search", None, Obj(<< <<"type", "object">>, <<"title", "q">> >>))

BrowserTool == ProviderDefinedTool("openai.web_search", "web_search")

\* the tool lists of the model: none, an empty one, function tools,
\* provider-defined tools and both
ToolLists ==
    { None,
      Some(<<>>),
      Some(<< WeatherTool >>),
      Some(<< WeatherTool, SearchTool >>),
      Some(<< SearchTool, WeatherTool >>),
      Some(<< BrowserTool >>),
      Some(<< WeatherTool, BrowserTool >>),
      Some(<< BrowserTool, SearchTool >>) }

ToolChoices ==
    { None,
      Some([type |-> "auto"]),
      Some([type |-> "none"]),
      Some([type |-> "required"]),
      Some([type |-> "tool", toolName |-> "getWeather"]) }

\* the values a temperature, a top-p and a token limit take in the model
Temperatures == { 0, 1, 2 }

TopPs == { 0, 1 }

TokenLimits == { 256, 1024 }

Optional(values) == { None } \cup { Some(v) : v \in values }

\* call options with the given conversation and nothing else
OptionsFor(prompt) ==
    [ prompt |-> prompt,
      responseFormat |-> None,
      maxOutputTokens |-> None,
      temperature |-> None,
      topP |-> None,
      stopSequences |-> None,
      seed |-> None,
      topK |-> None,
      presencePenalty |-> None,
      frequencyPenalty |-> None,
      tools |-> None,
      toolChoice |-> None ]

BasePrompt == << SystemMessage("be terse"), UserMessage(<< TextPart("2+2?") >>) >>

\* per-model settings with nothing set
NoSettings == [maxTokens |-> None, temperature |-> None, topP |-> None]

\* the per-model settings of the model
Settings ==
    [ maxTokens : Optional({ 512 }),
      temperature : Optional({ 0, 1 }),
      topP : Optional({ 1 }) ]

\* the call options of the model: the sampling settings, the unsupported
\* settings, stop and seed, the tools and the conversations, each varied
\* with the others left out
SamplingOptions ==
    { [OptionsFor(BasePrompt) EXCEPT !.maxOutputTokens = m, !.temperature = t, !.topP = p] :
        m \in Optional(TokenLimits), t \in Optional(Temperatures), p \in Optional(TopPs) }

UnsupportedOptions ==
    { [OptionsFor(BasePrompt) EXCEPT !.topK = k, !.presencePenalty = pp,
                                     !.frequencyPenalty = fp, !.seed = sd,
                                     !.stopSequences = st] :
        k \in Optional({ 40 }), pp \in Optional({ 0, 1 }), fp \in Optional({ 1 }),
        sd \in Optional({ 42 }), st \in Optional({ << "END" >> }) }

ToolOptions ==
    { [OptionsFor(BasePrompt) EXCEPT !.tools = tl, !.toolChoice = tc] :
        tl \in ToolLists, tc \in ToolChoices }

ResponseFormats == { None, Some([type |-> "text"]), Some([type |-> "json"]) }

\* the call options with the k-th conversation and a response format
PromptOptions(k, rf) == [OptionsFor(Prompts[k]) EXCEPT !.responseFormat = rf]

\* the inputs of a call on the base conversation: the settings of the model
\* and the options of the call; the settings vary with the sampling options
CallInputs ==
    (Settings \X SamplingOptions)
        \cup ({ NoSettings } \X (UnsupportedOptions \cup ToolOptions))

\* a member of an object literal: the value is None when it is undefined
Entry(key, value) == << key, value >>

\* the object of the members that are not undefined; of two members with one
\* key the later one counts
ObjectOf(entries) ==
    LET present == { k \in 1..Len(entries) : entries[k][2] # None }
        last(key) == CHOOSE k \in present :
                        /\ entries[k][1] = key
                        /\ \A j \in present : entries[j][1] = key => j <= k
    IN [ key \in { entries[k][1] : k \in present } |-> entries[last(key)][2][1] ]

\* the object has the key
Has(object, key) == key \in DOMAIN object

\* the value at the key, undefined (None) when the object has no such key
Get(object, key) == IF Has(object, key) THEN Some(object[key]) ELSE None

\* the object without the key
Without(object, key) == [ k \in DOMAIN object \ { key } |-> object[k] ]

\* the object with the key set to a value
With(object, key, value) ==
    [ k \in DOMAIN object \cup { key } |-> IF k = key THEN value ELSE object[k] ]

\* a warning for a setting the backend does not have
UnsupportedSetting(setting) == [type |-> "unsupported-setting", setting |-> setting]

\* the warnings for topK, presencePenalty and frequencyPenalty
UnsupportedWarnings(options) ==
    (IF options.topK # None THEN << UnsupportedSetting("topK") >> ELSE <<>>)
    \o (IF options.presencePenalty # None
        THEN << UnsupportedSetting("presencePenalty") >> ELSE <<>>)
    \o (IF options.frequencyPenalty # None
        THEN << UnsupportedSetting("frequencyPenalty") >> ELSE <<>>)

\* Array.prototype.filter for the function tools
RECURSIVE FilterFunctionTools(_)
FilterFunctionTools(tools) ==
    IF tools = <<>> THEN <<>>
    ELSE (IF Head(tools).type = "function" THEN << Head(tools) >> ELSE <<>>)
         \o FilterFunctionTools(Tail(tools))

\* the wire declaration of a function tool
WireTool(t) ==
    [ type |-> "function",
      function |-> [ name |-> t.name,
                     description |-> t.description,
                     parameters |-> t.inputSchema ] ]

\* the tools member: undefined (None) without tools or with an empty list
WireTools(options) ==
    IF options.tools # None /\ Len(options.tools[1]) > 0
    THEN LET kept == FilterFunctionTools(options.tools[1])
         IN Some([ k \in 1..Len(kept) |-> WireTool(kept[k]) ])
    ELSE None

\* the tool_choice member
WireToolChoice(options) ==
    IF options.toolChoice # None
    THEN LET tc == options.toolChoice[1]
         IN CASE tc.type = "auto" -> Some("auto")
              [] tc.type = "none" -> Some("none")
              [] tc.type = "required" -> Some("required")
              [] tc.type = "tool" ->
                   Some([type |-> "function", function |-> [name |-> tc.toolName]])
              [] OTHER -> None
    ELSE None

\* buildToolsAndChoice that warns of nothing
buildToolsAndChoice_NoWarnings(options) ==
    [ tools |-> WireTools(options),
      tool_choice |-> WireToolChoice(options),
      warnings |-> <<>> ]

buildToolsAndChoice(options) ==
    [ tools |-> WireTools(options),
      tool_choice |-> WireToolChoice(options),
      warnings |-> UnsupportedWarnings(options) ]

\* the message that asks for JSON only
JsonInstructionMessage ==
    [ role |-> "user",
      content |-> << [ type |-> "text",
                       text |-> "Respond with a valid JSON object only. Do not include any markdown formatting or additional text." ] >> ]

\* the messages of the call, the JSON instruction pushed after them
MessagesWithJsonInstruction(messages, options) ==
    IF options.responseFormat # None /\ options.responseFormat[1].type = "json"
    THEN Append(messages, JsonInstructionMessage)
    ELSE messages

\* value !== 0 ? value : undefined
SuppressZero(value) == IF value # Some(0) THEN value ELSE None

\* OpenAIAdapter.buildRequest that sends a zero as it is
OpenAIAdapter_buildRequest_ZeroSent(options, modelId, modelInBody) ==
    LET tc == buildToolsAndChoice(options)
        messages == MessagesWithJsonInstruction(convertToOpenAIMessages(options.prompt), options)
    IN [ body |-> ObjectOf(<< Entry("model", IF modelInBody THEN Some(modelId) ELSE None),
                              Entry("messages", Some(messages)),
                              Entry("max_completion_tokens", options.maxOutputTokens),
                              Entry("temperature", options.temperature),
                              Entry("top_p", options.topP),
                              Entry("stop", options.stopSequences),
                              Entry("seed", options.seed),
                              Entry("tools", tc.tools),
                              Entry("tool_choice", tc.tool_choice) >>),
         warnings |-> tc.warnings ]

OpenAIAdapter_buildRequest(options, modelId, modelInBody) ==
    LET tc == buildToolsAndChoice(options)
        messages == MessagesWithJsonInstruction(convertToOpenAIMessages(options.prompt), options)
        explicitTemperature == SuppressZero(options.temperature)
        explicitTopP == SuppressZero(options.topP)
    IN [ body |-> ObjectOf(<< Entry("model", IF modelInBody THEN Some(modelId) ELSE None),
                              Entry("messages", Some(messages)),
                              Entry("max_completion_tokens", options.maxOutputTokens),
                              Entry("temperature", explicitTemperature),
                              Entry("top_p", explicitTopP),
                              Entry("stop", options.stopSequences),
                              Entry("seed", options.seed),
                              Entry("tools", tc.tools),
                              Entry("tool_choice", tc.tool_choice) >>),
         warnings |-> tc.warnings ]

\* OpenAILegacyAdapter.buildRequest that keeps the key of its parent
OpenAILegacyAdapter_buildRequest_KeyKept(options, modelId, modelInBody) ==
    LET parent == OpenAIAdapter_buildRequest(options, modelId, modelInBody)
        withMessages == With(parent.body, "messages", convertToOpenAIMessages(options.prompt))
        withTemperature == IF options.temperature # None
                           THEN With(withMessages, "temperature", options.temperature[1])
                           ELSE withMessages
        withTopP == IF options.topP # None
                    THEN With(withTemperature, "top_p", options.topP[1])
                    ELSE withTemperature
    IN [ body |-> withTopP, warnings |-> parent.warnings ]

OpenAILegacyAdapter_buildRequest(options, modelId, modelInBody) ==
    LET parent == OpenAIAdapter_buildRequest(options, modelId, modelInBody)
        max_completion_tokens == Get(parent.body, "max_completion_tokens")
        rest == Without(parent.body, "max_completion_tokens")
        legacyBody == IF max_completion_tokens # None
                      THEN With(rest, "max_tokens", max_completion_tokens[1])
                      ELSE rest
        withMessages == With(legacyBody, "messages", convertToOpenAIMessages(options.prompt))
        withTemperature == IF options.temperature # None
                           THEN With(withMessages, "temperature", options.temperature[1])
                           ELSE withMessages
        withTopP == IF options.topP # None
                    THEN With(withTemperature, "top_p", options.topP[1])
                    ELSE withTemperature
    IN [ body |-> withTopP, warnings |-> parent.warnings ]

\* buildRequest of the adapter that resolveAdapter returned
AdapterBuildRequest(adapter, options, modelId, modelInBody) ==
    IF adapter = "OpenAILegacyAdapter"
    THEN OpenAILegacyAdapter_buildRequest(options, modelId, modelInBody)
    ELSE OpenAIAdapter_buildRequest(options, modelId, modelInBody)

\* getArgs of the language model class, with the settings and the
\* configuration of the model instance
getArgs(settings, modelId, modelInBody, options) ==
    LET warnings == UnsupportedWarnings(options)
        messages == MessagesWithJsonInstruction(convertToAzureMessages(options.prompt), options)
        tools == WireTools(options)
        tool_choice == WireToolChoice(options)
        explicitTemperature == IF settings.temperature # None THEN settings.temperature
                               ELSE SuppressZero(options.temperature)
        explicitTopP == IF settings.topP # None THEN settings.topP
                        ELSE SuppressZero(options.topP)
    IN [ body |-> ObjectOf(<< Entry("model", IF modelInBody THEN Some(modelId) ELSE None),
                              Entry("messages", Some(messages)),
                              Entry("max_tokens", IF options.maxOutputTokens # None
                                                  THEN options.maxOutputTokens
                                                  ELSE settings.maxTokens),
                              Entry("temperature", explicitTemperature),
                              Entry("top_p", explicitTopP),
                              Entry("stop", options.stopSequences),
                              Entry("seed", options.seed),
                              Entry("tools", tools),
                              Entry("tool_choice", tool_choice) >>),
         warnings |-> warnings ]

\* the options the language model class hands to the adapter: what the call
\* leaves out is taken from the settings of the model
EffectiveOptions(settings, options) ==
    [ options EXCEPT
        !.maxOutputTokens = IF options.maxOutputTokens # None
                            THEN options.maxOutputTokens ELSE settings.maxTokens,
        !.temperature = IF options.temperature # None
                        THEN options.temperature ELSE settings.temperature,
        !.topP = IF options.topP # None THEN options.topP ELSE settings.topP ]

\* ------------------------------------------------------------------------
\* Preparing a request: resolving the adapter, then building the body.
\* ------------------------------------------------------------------------

\* no call is streaming while the request is prepared
InitRequest == InitCalls({})

\* the part of the state that belongs to the streams
streamVars == << calls, phase, finishReason, inputTokens, outputTokens,
                 toolCallAccumulators, openTextIds, parts, delivered, generated,
                 generatedAt >>

\* resolveAdapter(modelId, settings.adapterType) is called for a model
Resolve ==
    /\ req.stage = "idle"
    /\ \E modelId \in ModelIds, adapterType \in AdapterTypeSettings :
         req' = [ stage |-> "resolved",
                  modelId |-> modelId,
                  adapterType |-> adapterType,
                  adapter |-> resolveAdapter(modelId, adapterType) ]
    /\ UNCHANGED streamVars

\* the language model class builds the request of a call with the adapter
\* that was resolved for it
BuildRequestFor(settings, options, modelInBody) ==
    LET passed == EffectiveOptions(settings, options)
        built == AdapterBuildRequest(req.adapter.value, passed, req.modelId, modelInBody)
    IN req' = [ stage |-> "built",
                modelId |-> req.modelId,
                adapterType |-> req.adapterType,
                adapter |-> req.adapter,
                settings |-> settings,
                options |-> options,
                passed |-> passed,
                modelInBody |-> modelInBody,
                body |-> built.body,
                warnings |-> built.warnings ]

BuildRequest ==
    /\ req.stage = "resolved"
    /\ ~req.adapter.threw
    /\ \E modelInBody \in BOOLEAN :
         \/ \E input \in CallInputs : BuildRequestFor(input[1], input[2], modelInBody)
         \/ \E k \in 1..Len(Prompts), rf \in ResponseFormats :
              BuildRequestFor(NoSettings, PromptOptions(k, rf), modelInBody)
    /\ UNCHANGED streamVars

\* the language model class that builds the body itself does so for a call
ArgsRequest(modelId, settings, options, modelInBody) ==
    LET args == getArgs(settings, modelId, modelInBody, options)
    IN [ stage |-> "args",
         modelId |-> modelId,
         settings |-> settings,
         options |-> options,
         modelInBody |-> modelInBody,
         body |-> args.body,
         warnings |-> args.warnings ]

GetArgsFor(modelId, settings, options, modelInBody) ==
    req' = ArgsRequest(modelId, settings, options, modelInBody)

GetArgs ==
    /\ req.stage = "idle"
    /\ \E modelId \in ModelIds, modelInBody \in BOOLEAN :
         \/ \E input \in CallInputs : GetArgsFor(modelId, input[1], input[2], modelInBody)
         \/ \E k \in 1..Len(Prompts), rf \in ResponseFormats :
              GetArgsFor(modelId, NoSettings, PromptOptions(k, rf), modelInBody)
    /\ UNCHANGED streamVars

\* ------------------------------------------------------------------------
\* The response of a call that does not stream (OpenAIResponse) and
\* parseResponse
\* ------------------------------------------------------------------------

\* a tool call of a response message (toolCallSchema)
ResponseToolCall(id, name, arguments) ==
    [id |-> id, function |-> [name |-> name, arguments |-> arguments]]

ResponseToolCalls ==
    { None,
      Some(<<>>),
      Some(<< ResponseToolCall("a", "f", "{}") >>),
      Some(<< ResponseToolCall("b", "g", "{\"q\":1}"), ResponseToolCall("a", "f", "{}") >>) }

ResponseChoice(content, tool_calls, finish_reason) ==
    [ message |-> [role |-> "assistant", content |-> content, tool_calls |-> tool_calls],
      finish_reason |-> finish_reason ]

\* the choices a response may begin with
ResponseChoices ==
    { ResponseChoice(content, tool_calls, finish_reason) :
        content \in { None, Some(""), Some("four") },
        tool_calls \in ResponseToolCalls,
        finish_reason \in { None, Some("stop"), Some("length"), Some("content_filter"),
                            Some("tool_calls"), Some("function_call") } }

\* the choices that may follow the first one
ExtraChoices ==
    { ResponseChoice(Some("five"), None, Some("length")),
      ResponseChoice(None, Some(<< ResponseToolCall("c", "h", "[]") >>), Some("tool_calls")),
      ResponseChoice(Some(""), None, None) }

ResponseUsages ==
    { None, Some([prompt_tokens |-> 8, completion_tokens |-> 12, total_tokens |-> Some(20)]),
      Some([prompt_tokens |-> 0, completion_tokens |-> 3, total_tokens |-> None]) }

\* the responses that pass openAIResponseSchema: no choice, one, or two
Responses ==
    { [choices |-> choices, usage |-> usage] :
        choices \in { <<>> } \cup { << c >> : c \in ResponseChoices }
                             \cup { << c, d >> : c \in ResponseChoices, d \in ExtraChoices },
        usage \in ResponseUsages }

\* the content parts of a result
TextContent(text) == [type |-> "text", text |-> text]

ToolCallContent(toolCallId, toolName, input) ==
    [type |-> "tool-call", toolCallId |-> toolCallId, toolName |-> toolName, input |-> input]

\* the content and the finish reason of one choice (undefined when the
\* response has no choice)
ParsedChoice(choice, usage) ==
    LET text == IF choice # None /\ TruthyStr(choice[1].message.content)
                THEN << TextContent(choice[1].message.content[1]) >>
                ELSE <<>>
        tcs == IF choice # None THEN OrElse(choice[1].message.tool_calls, <<>>) ELSE <<>>
        calls_ == [ k \in 1..Len(tcs) |->
                      ToolCallContent(tcs[k].id, tcs[k].function.name,
                                      tcs[k].function.arguments) ]
    IN [ content |-> text \o calls_,
         finishReason |-> mapFinishReason(IF choice # None THEN choice[1].finish_reason
                                          ELSE None),
         usage |-> [ inputTokens |-> IF usage # None THEN Some(usage[1].prompt_tokens)
                                     ELSE None,
                     outputTokens |-> IF usage # None THEN Some(usage[1].completion_tokens)
                                      ELSE None,
                     totalTokens |-> IF usage # None THEN usage[1].total_tokens ELSE None ] ]

\* parseResponse that reads the last choice
parseResponse_LastChoice(raw) ==
    ParsedChoice(IF Len(raw.choices) > 0 THEN Some(raw.choices[Len(raw.choices)]) ELSE None,
                 raw.usage)

parseResponse(raw) ==
    ParsedChoice(IF Len(raw.choices) > 0 THEN Some(raw.choices[1]) ELSE None, raw.usage)

\* a response has arrived and the adapter parses it
ParseResponse ==
    /\ req.stage = "idle"
    /\ \E raw \in Responses :
         req' = [stage |-> "parsed", raw |-> raw, result |-> parseResponse(raw)]
    /\ UNCHANGED streamVars

\* the messages of a conversation are converted, by the adapter's function
\* and by the language model class's
ConvertMessages ==
    /\ req.stage = "idle"
    /\ \E k \in 1..Len(Prompts) :
         req' = [ stage |-> "normalized",
                  k |-> k,
                  messages |-> convertToOpenAIMessages(Prompts[k]),
                  azureMessages |-> convertToAzureMessages(Prompts[k]) ]
    /\ UNCHANGED streamVars

NextRequest == Resolve \/ BuildRequest \/ GetArgs \/ ParseResponse \/ ConvertMessages

SpecRequest == InitRequest /\ [][NextRequest]_vars

\* an adapter has been asked for: the call has returned one or has thrown
IsResolved == req.stage \in { "resolved", "built" }

\* the model ids of ModelIds that a legacy pattern (gpt-4o, gpt-4, gpt-35,
\* gpt-3.5 at the beginning, in any case) matches
LegacyLookingIds ==
    { <<"g", "p", "t", "-", "4", ".", "5">>,
      <<"g", "p", "t", "-", "4", "5">>,
      <<"g", "p", "t", "-", "4">>,
      <<"g", "p", "t", "-", "4", "o">>,
      <<"G", "P", "T", "-", "4", "o">>,
      <<"g", "p", "t", "-", "3", "5">>,
      <<"g", "p", "t", "-", "3", ".", "5">> }

\* the model ids of ModelIds that a modern pattern (o and a digit, gpt-5,
\* gpt-4.5 at the beginning, in any case) matches
ModernLookingIds ==
    { <<"o", "1">>,
      <<"O", "1">>,
      <<"o", "3", "-", "m", "i", "n", "i">>,
      <<"g", "p", "t", "-", "5">>,
      <<"G", "p", "t", "-", "5", "-", "n", "a", "n", "o">>,
      <<"g", "p", "t", "-", "4", ".", "5">> }

\* the adapter class of an adapter type
AdapterOf(type) ==
    IF type = "openai-legacy" THEN "OpenAILegacyAdapter" ELSE "OpenAIAdapter"

\* C11: for every model id, an explicit adapter type 'openai' or
\* 'openai-legacy' makes resolveAdapter return the adapter of that type,
\* whatever the model id would pattern-match.
C11_ExplicitTypeWins ==
    \A type \in { "openai", "openai-legacy" } :
        (IsResolved /\ req.adapterType = Some(type))
            => req.adapter = Returned(AdapterOf(type))

\* the legacy adapter was asked for an id of the modern family and the modern
\* adapter could be asked for an id of the legacy family
C11_Witness ==
    /\ IsResolved
    /\ req.modelId = <<"o", "1">>
    /\ req.modelId \in ModernLookingIds \ LegacyLookingIds
    /\ req.adapterType = Some("openai-legacy")
    /\ req.adapter = Returned("OpenAILegacyAdapter")

C13_AnthropicThrows ==
    (IsResolved /\ req.adapterType = Some("anthropic"))
        => /\ req.adapter.threw
           /\ MessageContains(req.adapter.message, "not yet implemented")

\* 'anthropic' was asked for an id that has a legacy pattern match
C13_Witness ==
    /\ IsResolved
    /\ req.adapterType = Some("anthropic")
    /\ req.modelId \in LegacyLookingIds
    /\ req.adapter.threw

\* a body has been built, by an adapter or by the language model class
IsBuilt == req.stage \in { "built", "args" }

\* the adapter that built the body is the legacy one
BuiltByLegacy == req.stage = "built" /\ req.adapter.value = "OpenAILegacyAdapter"

\* the per-call value when the call gives one, else the per-model value
PerCallElsePerModel(perCall, perModel) == IF perCall # None THEN perCall ELSE perModel

C15_ZeroSuppression ==
    req.stage = "built" =>
        \A f \in { << "temperature", "temperature" >>, << "topP", "top_p" >> } :
            IF BuiltByLegacy
            THEN req.options[f[1]] # None => Get(req.body, f[2]) = req.options[f[1]]
            ELSE /\ (req.passed[f[1]] = Some(0) /\ req.settings[f[1]] = None)
                        => ~Has(req.body, f[2])
                 /\ (req.passed[f[1]] # None /\ req.passed[f[1]] # Some(0))
                        => Get(req.body, f[2]) = req.passed[f[1]]

\* the modern adapter dropped a temperature of 0 and kept a top-p of 1
C15_Witness ==
    /\ req.stage = "built"
    /\ ~BuiltByLegacy
    /\ req.settings = NoSettings
    /\ req.options.temperature = Some(0)
    /\ req.options.topP = Some(1)
    /\ ~Has(req.body, "temperature")
    /\ Has(req.body, "top_p")
    /\ req.body["top_p"] = 1

\* the key of the token limit in the body that was built
TokenLimitKey == IF req.stage = "built" /\ ~BuiltByLegacy THEN "max_completion_tokens" ELSE "max_tokens"

\* C16: when temperature, top-p or the token limit is given both per call and
\* per model, the body carries the per-call value (a per-call 0 may be left
\* out); the per-model value is never sent in its place.
C16_PerCallWins ==
    IsBuilt =>
        /\ \A f \in { << "temperature", "temperature" >>, << "topP", "top_p" >> } :
              (req.options[f[1]] # None /\ req.settings[f[1]] # None)
                  => \/ Get(req.body, f[2]) = req.options[f[1]]
                     \/ req.options[f[1]] = Some(0) /\ ~Has(req.body, f[2])
        /\ (req.options.maxOutputTokens # None /\ req.settings.maxTokens # None)
              => Get(req.body, TokenLimitKey) = req.options.maxOutputTokens

\* C17: with response format JSON the messages of the body are the converted
\* conversation followed by exactly one user message that asks for JSON only,
\* which is the last message; with any other response format the messages are
\* the converted conversation.  This holds for the modern and the legacy
\* adapter.
C17_JsonInstructionLast ==
    IsBuilt =>
        LET converted == convertToOpenAIMessages(req.options.prompt)
            messages == req.body["messages"]
        IN IF req.options.responseFormat = Some([type |-> "json"])
           THEN /\ Len(messages) = Len(converted) + 1
                /\ SubSeq(messages, 1, Len(converted)) = converted
                /\ messages[Len(messages)].role = "user"
                /\ messages[Len(messages)] = JsonInstructionMessage
           ELSE /\ Len(messages) = Len(converted)
                /\ messages = converted

\* the three settings the backend does not have
UnsupportedSettingNames == { "topK", "presencePenalty", "frequencyPenalty" }

\* the keys under which such a setting could be sent
UnsupportedKeys ==
    UnsupportedSettingNames \cup { "top_k", "presence_penalty", "frequency_penalty" }

\* the positions of the warnings that name the setting
WarningsNaming(setting) ==
    { k \in 1..Len(req.warnings) : req.warnings[k] = UnsupportedSetting(setting) }

\* C18: for every combination of topK, presencePenalty and frequencyPenalty
\* the request builder returns exactly one 'unsupported-setting' warning for
\* each of them that is present and none for one that is absent, and the body
\* it returns has none of the three.
C18_UnsupportedSettings ==
    IsBuilt =>
        /\ \A setting \in UnsupportedSettingNames :
              Cardinality(WarningsNaming(setting))
                  = IF req.options[setting] # None THEN 1 ELSE 0
        /\ \A key \in UnsupportedKeys : ~Has(req.body, key)

\* a call with topK and frequencyPenalty but no presencePenalty got the two
\* warnings and a body
C18_Witness ==
    /\ IsBuilt
    /\ req.options.topK # None
    /\ req.options.presencePenalty = None
    /\ req.options.frequencyPenalty # None
    /\ Len(req.warnings) = Cardinality(UnsupportedSettingNames) - 1
    /\ Has(req.body, "messages")

\* the file parts of a user message that are no images
RECURSIVE NonImageFiles(_)
NonImageFiles(content) ==
    IF content = <<>> THEN <<>>
    ELSE (IF Head(content).type = "file" /\ Head(content).mediaType.type # "image"
          THEN << Head(content) >> ELSE <<>>)
         \o NonImageFiles(Tail(content))

\* the number of such parts in the user messages of a conversation
RECURSIVE NonImageFileCount(_)
NonImageFileCount(prompt) ==
    IF prompt = <<>> THEN 0
    ELSE (IF Head(prompt).role = "user" THEN Len(NonImageFiles(Head(prompt).content)) ELSE 0)
         + NonImageFileCount(Tail(prompt))

\* the warnings that are not about topK, presencePenalty or frequencyPenalty
OtherWarnings ==
    { k \in 1..Len(req.warnings) :
        \A setting \in UnsupportedSettingNames : req.warnings[k] # UnsupportedSetting(setting) }

\* C19: the request builder returns one warning for each file part of a user
\* message that is no image (the part is left out of the wire message), and
\* none for an image file part.
C19_NonImageFileWarned ==
    IsBuilt => Cardinality(OtherWarnings) = NonImageFileCount(req.options.prompt)

\* C20: the tools of the body are the supplied tools one for one, in order,
\* each with name, description and input schema; without tools or with an
\* empty list the body has no tools key, and it never has an empty tools
\* array.
C20_ToolsOneToOne ==
    IsBuilt =>
        LET supplied == OrElse(req.options.tools, <<>>)
        IN /\ Has(req.body, "tools") => Len(req.body["tools"]) > 0
           /\ Has(req.body, "tools") <=> Len(supplied) > 0
           /\ Has(req.body, "tools") =>
                /\ Len(req.body["tools"]) = Len(supplied)
                /\ \A k \in 1..Len(supplied) :
                      /\ req.body["tools"][k].function.name = supplied[k].name
                      /\ supplied[k].type = "function" =>
                            /\ req.body["tools"][k].function.description = supplied[k].description
                            /\ req.body["tools"][k].function.parameters = supplied[k].inputSchema

\* ------------------------------------------------------------------------
\* A streaming call together with its request: doStream calls getArgs and
\* then streams.
\* ------------------------------------------------------------------------

\* the call options of a streaming call: every combination of the
\* unsupported settings
StreamOptions == { o \in UnsupportedOptions : o.seed = None /\ o.stopSequences = None }

\* doStream has called getArgs for the one call and has set up the stream
InitStream ==
    /\ InitStreams({1})
    /\ \E options \in StreamOptions :
         req = ArgsRequest(<< "g", "p", "t", "-", "t", "e", "s", "t" >>, NoSettings,
                           options, FALSE)

SpecStream == InitStream /\ [][Next]_vars

\* C26: a stream that has started has exactly one stream-start part, it is
\* the first part and it carries the warnings of the call; this holds for
\* every chunk sequence, the empty one included.
C26_StreamStartFirst ==
    \A c \in calls :
        IF phase[c] = "new" THEN parts[c] = <<>>
        ELSE /\ PositionsOf(parts[c], "stream-start") = { 1 }
             /\ parts[c][1].warnings = req.warnings

\* a stream with warnings that was flushed before any chunk arrived: it has
\* the stream-start part and the finish part
C26_Witness ==
    /\ phase[1] = "closed"
    /\ delivered[1] = <<>>
    /\ Len(req.warnings) = 3
    /\ Len(parts[1]) = 2
    /\ parts[1][1].type = "stream-start"
    /\ parts[1][1].warnings = req.warnings

IsToolInputStartPart(p) == p.type = "tool-input-start"

IsTextStartPart(p) == p.type = "text-start"

\* the types of the parts that only flush pushes
FlushTypes == { "text-end", "tool-input-end", "tool-call", "finish" }

\* C27: the parts a flush adds are, in this order, one text-end for each open
\* text span, then for each wire index in the order of its first appearance
\* a tool-input-end directly followed by the tool-call of the same id with
\* the concatenated argument text, then one finish part; no part of these
\* types comes earlier.
C27_FlushSequence ==
    \A c \in calls :
        phase[c] = "closed" =>
            LET ps == parts[c]
                tcs == WireToolDeltas(delivered[c])
                order == FirstSeen(tcs, {})
                starts == SelectSeq(ps, IsToolInputStartPart)
                texts == SelectSeq(ps, IsTextStartPart)
                n == Len(texts)
                m == Len(order)
                base == Len(ps) - (n + 2 * m + 1)
            IN /\ base >= 1
               /\ Len(starts) = m
               /\ \A k \in 1..base : ps[k].type \notin FlushTypes
               /\ \A k \in 1..n : ps[base + k] = TextEnd(texts[k].id)
               /\ \A k \in 1..m :
                     /\ ps[base + n + 2 * k - 1] = ToolInputEnd(starts[k].id)
                     /\ ps[base + n + 2 * k].type = "tool-call"
                     /\ ps[base + n + 2 * k].id = starts[k].id
                     /\ ps[base + n + 2 * k].input = FragmentsAt(tcs, order[k])
               /\ ps[Len(ps)].type = "finish"

\* a flushed stream with an open text span and two tool calls, the one at
\* wire index 1 having appeared before the one at wire index 0
C27_Witness ==
    /\ phase[1] = "closed"
    /\ FirstSeen(WireToolDeltas(delivered[1]), {}) = << 1, 0 >>
    /\ PositionsOf(parts[1], "text-end") # {}
    /\ Cardinality(PositionsOf(parts[1], "tool-call")) = 2

\* the first delta of a delta list that carries the wire index
RECURSIVE FirstDeltaAt(_, _)
FirstDeltaAt(tcs, idx) ==
    IF Head(tcs).index = idx THEN Head(tcs) ELSE FirstDeltaAt(Tail(tcs), idx)

\* the ids the id generator has handed out
GeneratedIds == { generateId(n) : n \in 1..generated }

\* id and name of the tool call at each wire index are those of the first
\* delta at the index (a generated id when it carries none, '' when it
\* carries no name), on the tool-input-start part and on the tool-call part,
\* and the generator was called once for each index whose first delta
\* carries no id and never else
FirstDeltaDecides(c) ==
    LET ps == parts[c]
        tcs == WireToolDeltas(delivered[c])
        order == FirstSeen(tcs, {})
        starts == SelectSeq(ps, IsToolInputStartPart)
        toolCalls == SelectSeq(ps, IsToolCallPart)
        idless == { k \in 1..Len(order) : FirstDeltaAt(tcs, order[k]).id = None }
    IN /\ Len(starts) = Len(order)
       /\ \A k \in 1..Len(order) :
             LET first == FirstDeltaAt(tcs, order[k])
             IN /\ starts[k].toolName = OrElse(first.name, "")
                /\ IF first.id # None THEN starts[k].id = first.id[1]
                   ELSE starts[k].id \in GeneratedIds
                /\ phase[c] = "closed" =>
                      /\ toolCalls[k].id = starts[k].id
                      /\ toolCalls[k].toolName = starts[k].toolName
       /\ generated = Cardinality(idless)
       /\ Cardinality({ starts[k].id : k \in idless }) = Cardinality(idless)

\* C29 as stated: id and name of a tool call are fixed by the first delta at
\* its wire index, the generator is called at most once per index, and the
\* toolName of every tool-call part equals the toolName of every
\* tool-input-start part of its id, whatever ids the chunks carried.
C29_FirstDeltaFixes_AnyIds ==
    \A c \in calls :
        /\ FirstDeltaDecides(c)
        /\ \A t \in PositionsOf(parts[c], "tool-call") :
              \A st \in PositionsFor(parts[c], "tool-input-start", parts[c][t].id) :
                  parts[c][t].toolName = parts[c][st].toolName

\* C29 amended: the same, the toolName of a tool-call part being compared
\* with the tool-input-start parts of its id only for an id that the run
\* bound to a single wire index.
C29_FirstDeltaFixes ==
    \A c \in calls :
        /\ FirstDeltaDecides(c)
        /\ \A t \in PositionsOf(parts[c], "tool-call") :
              Cardinality(IndicesOfId(c, parts[c][t].id)) = 1 =>
                  \A st \in PositionsFor(parts[c], "tool-input-start", parts[c][t].id) :
                      parts[c][t].toolName = parts[c][st].toolName

\* a flushed stream in which a wire index got a first delta with id a and
\* name f and later a delta with id b and name g: its tool call has id a,
\* name f and the arguments of both
C29_Witness ==
    /\ phase[1] = "closed"
    /\ LET tcs == WireToolDeltas(delivered[1])
       IN \E i, j \in 1..Len(tcs) :
             /\ i < j
             /\ tcs[i].index = tcs[j].index
             /\ \A h \in 1..(i - 1) : tcs[h].index # tcs[i].index
             /\ tcs[i].id = Some("a") /\ tcs[i].name = Some("f")
             /\ tcs[j].id = Some("b") /\ tcs[j].name = Some("g")
    /\ \E t \in PositionsOf(parts[1], "tool-call") :
          /\ parts[1][t].id = "a"
          /\ parts[1][t].toolName = "f"
          /\ parts[1][t].input = "pq"
    /\ PositionsFor(parts[1], "tool-call", "b") = {}

\* the step delivers to call c a valid chunk that carries a usage object
UsageChunkStep(c) ==
    /\ Len(delivered'[c]) = Len(delivered[c]) + 1
    /\ delivered'[c][Len(delivered'[c])].success
    /\ delivered'[c][Len(delivered'[c])].usage # None

\* the usage objects of the delivered chunks
DeliveredUsages(c) ==
    { delivered[c][k].usage[1] :
        k \in { j \in 1..Len(delivered[c]) : delivered[c][j].usage # None } }

\* C30: a chunk with a usage object sets both running counters to the values
\* of that object, a counter the object leaves out becoming undefined
\* whatever it was before; so both counters of the finish part come from one
\* usage object (or both are undefined when no chunk had one).
C30_UsageReplacedTogether ==
    /\ [][ \A c \in calls :
             UsageChunkStep(c) =>
                LET usage == delivered'[c][Len(delivered'[c])].usage[1]
                IN /\ inputTokens'[c] = usage.prompt_tokens
                   /\ outputTokens'[c] = usage.completion_tokens ]_vars
    /\ [] ( \A c \in calls :
              phase[c] = "closed" =>
                 \/ /\ DeliveredUsages(c) = {}
                    /\ FinishPart(c).usage = [inputTokens |-> None, outputTokens |-> None]
                 \/ \E usage \in DeliveredUsages(c) :
                       FinishPart(c).usage = [inputTokens |-> usage.prompt_tokens,
                                              outputTokens |-> usage.completion_tokens] )

\* a flushed stream in which a usage object with both counters was followed
\* by one without the completion count: the finish part has no output count
C30_Witness ==
    /\ phase[1] = "closed"
    /\ Len(delivered[1]) >= 2
    /\ delivered[1][1].usage = Some(Usage(Some(8), Some(12)))
    /\ delivered[1][Len(delivered[1])].usage = Some(Usage(Some(0), None))
    /\ FinishPart(1).usage = [inputTokens |-> Some(0), outputTokens |-> None]

\* ------------------------------------------------------------------------
\* The provider: createAzureFoundry resolves the endpoint and its style,
\* and every model it creates posts to the URL that buildUrl gives.
\* An endpoint and a URL are sequences of pieces of text; a path segment
\* is one piece with its leading slash, a trailing slash is a piece.
\* ------------------------------------------------------------------------

CognitiveServicesHost ==
    << "https://", "my-resource.", "cognitiveservices.azure.com" >>

FoundryHost == << "https://", "my-project.", "services.ai.azure.com" >>

ApimHost == << "https://", "my-org.", "azure-api.net" >>

\* the endpoints of the three kinds of host, plain, with a trailing slash,
\* and with a trailing /openai segment; and the empty string
Endpoints ==
    { <<>>,
      CognitiveServicesHost,
      CognitiveServicesHost \o << "/" >>,
      CognitiveServicesHost \o << "/openai" >>,
      CognitiveServicesHost \o << "/openai", "/" >>,
      FoundryHost \o << "/models" >>,
      ApimHost,
      ApimHost \o << "/" >>,
      ApimHost \o << "/openai" >> }

EndpointStyles == { "auto", "cognitive-services", "foundry" }

ApiVersions == { "2024-06-01" }

\* the options of createAzureFoundry
ProviderSettings ==
    [ endpoint : Optional(Endpoints),
      endpointStyle : Optional(EndpointStyles),
      apiVersion : Optional(ApiVersions) ]

\* the values of the environment variable AZURE_AI_FOUNDRY_ENDPOINT
EnvEndpoints == Optional({ FoundryHost \o << "/models" >> })

\* the deployment names: a plain one and the one with a space and a slash
DeploymentIds ==
    { << "g", "p", "t", "-", "4", "o" >>,
      << "m", "y", " ", "m", "/", "v", "2" >> }

\* url?.replace(/\/$/, ''): one trailing slash is removed
withoutTrailingSlash(url) ==
    IF url = None THEN None
    ELSE LET u == url[1]
         IN IF Len(u) > 0 /\ u[Len(u)] = "/"
            THEN Some(SubSeq(u, 1, Len(u) - 1))
            ELSE Some(u)

\* String.prototype.includes for a text that is one piece
includes(str, searchString) == \E k \in 1..Len(str) : str[k] = searchString

\* a character as encodeURIComponent writes it
EncodeChar(ch) ==
    IF ch = " " THEN "%20"
    ELSE IF ch = "/" THEN "%2F"
    ELSE ch

encodeURIComponent(str) == Join([ k \in 1..Len(str) |-> EncodeChar(str[k]) ], "")

resolvedStyle(options, endpoint) ==
    LET style == OrElse(options.endpointStyle, "auto")
    IN IF style = "cognitive-services" THEN "cognitive-services"
       ELSE IF style = "foundry" THEN "foundry"
       ELSE IF includes(endpoint, "cognitiveservices.azure.com")
            THEN "cognitive-services"
            ELSE "foundry"

\* the provider that createAzureFoundry returns, or the error it throws
createAzureFoundry(options, env) ==
    LET endpoint == OrElse(withoutTrailingSlash(
                               IF options.endpoint # None THEN options.endpoint ELSE env),
                           <<>>)
    IN IF endpoint = <<>>
       THEN Thrown("An Azure AI Foundry endpoint is required")
       ELSE Returned([ endpoint |-> endpoint,
                       isCognitiveServices |->
                           resolvedStyle(options, endpoint) = "cognitive-services",
                       apiVersion |-> OrElse(options.apiVersion, "2024-10-21") ])

buildUrl(provider, modelId) ==
    IF provider.isCognitiveServices
    THEN provider.endpoint
            \o << "/openai", "/deployments", "/" \o encodeURIComponent(modelId),
                  "/chat", "/completions", "?api-version=" \o provider.apiVersion >>
    ELSE provider.endpoint \o << "/chat", "/completions" >>

\* the configuration of a chat model with the model in the body always
createChatModel_AlwaysInBody(provider, modelId) ==
    [ url |-> buildUrl(provider, modelId), modelInBody |-> TRUE ]

\* the configuration of the chat model that the provider creates
createChatModel(provider, modelId) ==
    [ url |-> buildUrl(provider, modelId),
      modelInBody |-> ~provider.isCognitiveServices ]

\* createAzureFoundry is called
CreateProvider ==
    /\ req.stage = "idle"
    /\ \E options \in ProviderSettings, env \in EnvEndpoints :
         req' = [ stage |-> "provider",
                  options |-> options,
                  env |-> env,
                  result |-> createAzureFoundry(options, env) ]
    /\ UNCHANGED streamVars

\* a model of the provider posts the request of a call
PostRequest ==
    /\ req.stage = "provider"
    /\ ~req.result.threw
    /\ \E modelId \in DeploymentIds, options \in StreamOptions :
         LET provider == req.result.value
             config == createChatModel(provider, modelId)
         IN req' = [ stage |-> "posted",
                     options |-> req.options,
                     provider |-> provider,
                     modelId |-> modelId,
                     modelInBody |-> config.modelInBody,
                     url |-> config.url,
                     body |-> getArgs(NoSettings, modelId, config.modelInBody,
                                      options).body ]
    /\ UNCHANGED streamVars

NextProvider == CreateProvider \/ PostRequest

SpecProvider == InitRequest /\ [][NextProvider]_vars

IsPosted == req.stage = "posted"

\* the part of the URL that the provider appends to the endpoint
AppendedPath == SubSeq(req.url, Len(req.provider.endpoint) + 1, Len(req.url))

\* the endpoint as the caller gave it ends with an /openai segment
EndsWithOpenai(endpoint) ==
    LET e == withoutTrailingSlash(Some(endpoint))[1]
    IN Len(e) > 0 /\ e[Len(e)] = "/openai"

\* the same endpoint without its trailing /openai segment
WithoutOpenai(endpoint) ==
    LET e == withoutTrailingSlash(Some(endpoint))[1]
    IN SubSeq(e, 1, Len(e) - 1)

\* the number of /openai segments of a URL
OpenaiSegments(url) == Cardinality({ k \in 1..Len(url) : url[k] = "/openai" })

\* C23: with the cognitive-services style, a request to an endpoint given
\* with a trailing /openai segment goes to the URL built from the endpoint
\* without that segment, and its path has a single /openai
C23_OpenaiStripped ==
    ( /\ IsPosted
      /\ req.provider.isCognitiveServices
      /\ req.options.endpoint # None
      /\ EndsWithOpenai(req.options.endpoint[1]) )
    => /\ req.url = buildUrl([req.provider EXCEPT
                                 !.endpoint = WithoutOpenai(req.options.endpoint[1])],
                             req.modelId)
       /\ OpenaiSegments(req.url) = 1

\* the endpoints of each kind of host
HostOf(endpoint) == SubSeq(endpoint, 1, 3)

IsDeploymentPath ==
    /\ AppendedPath = << "/openai", "/deployments",
                         "/" \o encodeURIComponent(req.modelId),
                         "/chat", "/completions",
                         "?api-version=" \o req.provider.apiVersion >>
    /\ ~Has(req.body, "model")

IsFoundryPath ==
    /\ AppendedPath = << "/chat", "/completions" >>
    /\ Has(req.body, "model")
    /\ req.body["model"] = req.modelId

\* C24: when endpointStyle is not set, a cognitiveservices.azure.com host
\* gets the deployment path with the model in the URL, a
\* services.ai.azure.com host gets /chat/completions with the model in the
\* body, and every other host gets the deployment path
C24_InferredFromHost ==
    ( IsPosted /\ req.options.endpointStyle = None )
    => IF HostOf(req.provider.endpoint) = FoundryHost
       THEN IsFoundryPath
       ELSE IsDeploymentPath

\* C25: every request carries the model id in exactly one place: in the
\* body under the key model when modelInBody is true, and then not in the
\* path the provider appends; encoded in the path when it is false, and
\* then not in the body
C25_ModelInOnePlace ==
    IsPosted
    => LET inBody == Has(req.body, "model")
           inPath == includes(AppendedPath, "/" \o encodeURIComponent(req.modelId))
       IN /\ inBody # inPath
          /\ req.modelInBody = inBody
          /\ inBody => req.body["model"] = req.modelId
          /\ inPath => AppendedPath[3] = "/" \o encodeURIComponent(req.modelId)

\* both placements happen, and the deployment name that needs encoding is
\* written encoded
C25_Witness ==
    /\ IsPosted
    /\ ~req.modelInBody
    /\ req.modelId = << "m", "y", " ", "m", "/", "v", "2" >>
    /\ includes(req.url, "/my%20m%2Fv2")
    /\ ~Has(req.body, "model")

\* ------------------------------------------------------------------------
\* The gpt-4.5 entry of OPENAI_PATTERNS
\* ------------------------------------------------------------------------

\* the model id begins with gpt-4.5, in any case of the letters
BeginsWithGpt45(modelId) ==
    /\ Len(modelId) >= 7
    /\ toLowerCase(SubSeq(modelId, 1, 7)) = << "g", "p", "t", "-", "4", ".", "5" >>

\* C28: without an explicit adapter type, a model id that begins with
\* gpt-4.5 is classified as the modern 'openai' family and gets the modern
\* adapter
C28_Gpt45IsModern ==
    (IsResolved /\ req.adapterType = None /\ BeginsWithGpt45(req.modelId))
        => req.adapter = Returned("OpenAIAdapter")

\* ------------------------------------------------------------------------
\* The result of parseResponse
\* ------------------------------------------------------------------------

IsParsed == req.stage = "parsed"

\* the fixed table of the finish reasons
FinishReasonTable(reason) ==
    IF reason = Some("stop") THEN "stop"
    ELSE IF reason = Some("length") THEN "length"
    ELSE IF reason = Some("content_filter") THEN "content-filter"
    ELSE IF reason = Some("tool_calls") THEN "tool-calls"
    ELSE "other"

\* the response with its first choice only
FirstChoiceOnly(raw) ==
    [raw EXCEPT !.choices = IF Len(@) > 1 THEN << @[1] >> ELSE @]

\* the text parts and the tool-call parts of a content
TextPartsOf(content) == SelectSeq(content, LAMBDA p : p.type = "text")

ToolCallPartsOf(content) == SelectSeq(content, LAMBDA p : p.type = "tool-call")

\* C21: the result of parseResponse comes from the first choice only: the
\* content is that choice's text (if it has any) followed by its tool calls
\* in their order, the finish reason is the table entry of that choice's
\* finish_reason ('other' for any other string, null, or no choice), and
\* further choices do not change the result
C21_FirstChoiceOnly ==
    IsParsed
    => LET raw == req.raw
           result == req.result
           first == raw.choices[1]
           texts == TextPartsOf(result.content)
           tcs == ToolCallPartsOf(result.content)
       IN /\ result = parseResponse(FirstChoiceOnly(raw))
          /\ result.content = texts \o tcs
          /\ IF Len(raw.choices) = 0
             THEN result.content = <<>> /\ result.finishReason = "other"
             ELSE /\ result.finishReason = FinishReasonTable(first.finish_reason)
                  /\ IF TruthyStr(first.message.content)
                     THEN texts = << TextContent(first.message.content[1]) >>
                     ELSE texts = <<>>
                  /\ Len(tcs) = Len(OrElse(first.message.tool_calls, <<>>))
                  /\ \A k \in 1..Len(tcs) :
                       LET tc == first.message.tool_calls[1][k]
                       IN /\ tcs[k].toolCallId = tc.id
                          /\ tcs[k].toolName = tc.function.name
                          /\ tcs[k].input = tc.function.arguments

\* a response of two choices whose first has text, two tool calls and an
\* unknown finish reason, and whose second has another text and reason
C21_Witness ==
    /\ IsParsed
    /\ Len(req.raw.choices) = 2
    /\ req.raw.choices[1].message.content = Some("four")
    /\ req.raw.choices[1].finish_reason = Some("function_call")
    /\ req.raw.choices[2].message.content = Some("five")
    /\ req.raw.choices[2].finish_reason = Some("length")
    /\ Len(req.result.content) = 3
    /\ req.result.finishReason = "other"

\* ------------------------------------------------------------------------
\* Text-only conversations
\* ------------------------------------------------------------------------

IsNormalized == req.stage = "normalized"

\* every part of every user and assistant message is a text part, and the
\* conversation has no tool message
IsTextOnly(prompt) ==
    \A i \in 1..Len(prompt) :
        /\ prompt[i].role \in { "system", "user", "assistant" }
        /\ prompt[i].role # "system"
             => \A j \in 1..Len(prompt[i].content) : prompt[i].content[j].type = "text"

\* the texts of a sequence of text parts, one after the other
RECURSIVE ConcatTexts(_)
ConcatTexts(textParts) ==
    IF textParts = <<>> THEN ""
    ELSE Head(textParts).text \o ConcatTexts(Tail(textParts))

\* the text of a message of the conversation
MessageText(message) ==
    IF message.role = "system" THEN message.content ELSE ConcatTexts(message.content)

\* the text read back from a wire message; an assistant message without
\* text has content null
WireText(wire) ==
    IF wire.role = "system" THEN wire.content
    ELSE IF wire.role = "user" THEN ConcatTexts(wire.content)
    ELSE OrElse(wire.content, "")

\* the wire messages keep a text-only conversation
Lossless(prompt, wire) ==
    /\ Len(wire) = Len(prompt)
    /\ \A i \in 1..Len(prompt) :
         /\ wire[i].role = prompt[i].role
         /\ DOMAIN wire[i] = { "role", "content" }
         /\ prompt[i].role = "system" => wire[i].content = prompt[i].content
         /\ prompt[i].role = "user"
              => /\ Len(wire[i].content) = Len(prompt[i].content)
                 /\ \A j \in 1..Len(prompt[i].content) :
                      wire[i].content[j] = [type |-> "text", text |-> prompt[i].content[j].text]
         /\ prompt[i].role = "assistant"
              => wire[i].content = IF prompt[i].content = <<>> THEN None
                                   ELSE Some(ConcatTexts(prompt[i].content))
         /\ WireText(wire[i]) = MessageText(prompt[i])

\* C22: for a text-only conversation both converters are lossless: one wire
\* message per message in the same order, a system message's text verbatim,
\* one wire text part per text part of a user message in order, the
\* concatenation of the text parts as the content of an assistant message
\* (no content when it has no text part), so that the text of every message
\* is read back exactly
C22_TextOnlyLossless ==
    (IsNormalized /\ IsTextOnly(Prompts[req.k]))
        => /\ Lossless(Prompts[req.k], req.messages)
           /\ Lossless(Prompts[req.k], req.azureMessages)

\* a conversation of five messages with empty and repeated texts, whose
\* assistant message of three text parts became one text
C22_Witness ==
    /\ IsNormalized
    /\ IsTextOnly(Prompts[req.k])
    /\ Len(req.messages) = 5
    /\ req.messages[4].role = "assistant"
    /\ Len(Prompts[req.k][4].content) = 3
    /\ req.messages[4].content = Some("abc")
    /\ Len(req.messages[3].content) = 3

====
